---------------------------- MODULE Spec2Model ----------------------------
(***************************************************************************)
(* Yggdrasil: truth-tree editor.  Model of the formula type (grammar       *)
(* crate), the branch decomposition rules and the set-matching utilities   *)
(* (engine crate) and of a branch's verdict (editor component).            *)
(***************************************************************************)
EXTENDS Integers, Sequences, FiniteSets, TLC

VARIABLES
    pc,               \* position of the modelled call: "input" before, "done" after
    lhs, rhs,         \* operands of an Expr comparison
    eq_result,        \* result of lhs == rhs
    hash_lhs,         \* hasher input written by lhs.hash(state)
    hash_rhs,         \* hasher input written by rhs.hash(state)
    rule,             \* BranchRule of a decompose call
    expr,             \* Expr of a decompose call
    decomposed,       \* EngineResult<(HashSet<Expr>, HashSet<Expr>)> of the call
    fn,               \* which of the two util.rs functions is called
    list,             \* the items the iterator argument yields, in order
    set,              \* the HashSet<Expr> argument
    starts_with,      \* the call's result and which items it examined
    branch_rule,      \* BranchState.branch_rule: the selected rule, or NoRule
    statements,       \* BranchState.statements: the parsed expr of each, in order
    sub,              \* BranchState.sub: NoSub or the two sub-branches
    current_error,    \* BranchState.current_error (memo)
    formula,          \* the formula handed to validate_syntax
    validation,       \* what validate_syntax returned
    tokens,           \* the tokens of the text handed to the parser
    spaces,           \* the token boundaries of the text that hold a space
    ids,              \* the strings nanoid returns, one per quantifier
    parsed,           \* what parse returned: output and errors
    respaced,         \* the boundaries of the same tokens spaced otherwise
    reparsed,         \* what parse returned for the text spaced otherwise
    editor_branches,  \* EditorContext.branches: the uids registered, in order
    editor_statements,\* EditorContext.statements: the uids registered
    focused_branch,   \* EditorContext.focused_branch
    focused_statement,\* EditorContext.focused_statement: NoUid or a uid
    branch_states,    \* every BranchState made, by uid
    uid_count,        \* the number of Uid::new() calls made
    deleted,          \* the last del_statement call: branch, uid, statements before, result
    error_spans,      \* the spans handed to YggError::custom
    custom            \* the YggError it returned: start and end

eqVars == <<lhs, rhs, eq_result, hash_lhs, hash_rhs>>
decVars == <<rule, expr, decomposed>>
listVars == <<fn, list, set, starts_with>>
branchVars == <<branch_rule, statements, sub, current_error>>
valVars == <<formula, validation>>
parseVars == <<tokens, spaces, ids, parsed, respaced, reparsed>>
editorVars == <<editor_branches, editor_statements, focused_branch, focused_statement,
                branch_states, uid_count, deleted>>
customVars == <<error_spans, custom>>

vars == <<pc, eqVars, decVars, listVars, branchVars, valVars, parseVars, editorVars, customVars>>

(***************************************************************************)
(* Bounds of the model.                                                    *)
(***************************************************************************)
\* number of distinct literal names
NumLits == 2
\* largest number of Group wrappers in one generated formula
MaxGroup == 2
\* longest list handed to the set-matching utilities
MaxLen == 3
\* largest number of statements in a sub-branch
MaxStmts == 2
\* number of different strings nanoid returns
NumIds == 2
\* number of Uid::new() calls in a run of the editor
MaxUids == 10
\* number of statements added from the toolbar in a run of the editor
MaxAdded == 2
\* largest offset of a span given to YggError::custom
MaxOffset == 3
\* largest number of spans given to YggError::custom
MaxSpans == 2

Idle == "idle"

(***************************************************************************)
(* grammar/src/lib.rs: enum Expr.  A value is a record whose tag is the    *)
(* variant (the ExprDiscriminants value) and whose other fields are the    *)
(* variant's fields; the unit leaf tokens are left out.                    *)
(***************************************************************************)
Literal(l) == [tag |-> "Literal", lit |-> l]
Variable(v) == [tag |-> "Variable", var |-> v]
Generic(l) == [tag |-> "Generic", lit |-> l]
Tautology == [tag |-> "Tautology"]
Contradiction == [tag |-> "Contradiction"]
Group(e) == [tag |-> "Group", expr |-> e]
Group2(e) == [tag |-> "Group2", expr |-> e]
Group3(e) == [tag |-> "Group3", expr |-> e]
Function(f, as) == [tag |-> "Function", func |-> f, args |-> as]
Predicate(p, as) == [tag |-> "Predicate", pred |-> p, args |-> as]
Not(e) == [tag |-> "Not", expr |-> e]
And(l, r) == [tag |-> "And", left |-> l, right |-> r]
Or(l, r) == [tag |-> "Or", left |-> l, right |-> r]
Xor(l, r) == [tag |-> "Xor", left |-> l, right |-> r]
Conditional(l, r) == [tag |-> "Conditional", left |-> l, right |-> r]
Biconditional(l, r) == [tag |-> "Biconditional", left |-> l, right |-> r]
Universal(v, e) == [tag |-> "Universal", iter |-> v, expr |-> e]
Existential(v, e) == [tag |-> "Existential", iter |-> v, expr |-> e]
UnknownOperator(l, o, r) == [tag |-> "UnknownOperator", left |-> l, operator |-> o, right |-> r]

GroupTags == {"Group", "Group2", "Group3"}
BinaryTags == {"And", "Or", "Xor", "Conditional", "Biconditional"}
QuantifierTags == {"Universal", "Existential"}

\* ExprDiscriminants::from(expr)
Discriminant(e) == e.tag

\* a simplify that unwraps a single Group and stops
SimplifyOneLevel(e) ==
    IF e.tag \in GroupTags THEN e.expr ELSE e

RECURSIVE Simplify(_)
\* Expr::simplify: the expression under all leading Group wrappers
Simplify(e) ==
    IF e.tag \in GroupTags THEN Simplify(e.expr) ELSE e

RECURSIVE ExprEq(_, _)
\* impl PartialEq for Expr: both sides simplified, then compared variant by
\* variant, children (Box<Expr>, Vec<Expr>) compared by this same relation
ExprEq(a, b) ==
    LET l == Simplify(a)
        r == Simplify(b)
    IN  IF l.tag # r.tag THEN FALSE
        ELSE CASE l.tag \in {"Literal", "Generic"} -> l.lit = r.lit
               [] l.tag = "Variable" -> l.var = r.var
               [] l.tag \in {"Tautology", "Contradiction"} -> TRUE
               [] l.tag = "Function" ->
                     /\ l.func = r.func
                     /\ Len(l.args) = Len(r.args)
                     /\ \A i \in 1..Len(l.args) : ExprEq(l.args[i], r.args[i])
               [] l.tag = "Predicate" ->
                     /\ l.pred = r.pred
                     /\ Len(l.args) = Len(r.args)
                     /\ \A i \in 1..Len(l.args) : ExprEq(l.args[i], r.args[i])
               [] l.tag = "Not" -> ExprEq(l.expr, r.expr)
               [] l.tag \in BinaryTags ->
                     ExprEq(l.left, r.left) /\ ExprEq(l.right, r.right)
               [] l.tag \in QuantifierTags ->
                     l.iter = r.iter /\ ExprEq(l.expr, r.expr)
               [] l.tag = "UnknownOperator" ->
                     /\ ExprEq(l.left, r.left)
                     /\ l.operator = r.operator
                     /\ ExprEq(l.right, r.right)
               [] OTHER -> FALSE

(***************************************************************************)
(* impl Hash for Expr.  The hash is modelled by the sequence of items the  *)
(* implementation writes to the Hasher: the hash value is a function of    *)
(* that sequence.  "unreachable" stands for the unreachable!() panic.      *)
(***************************************************************************)
HDisc(t) == [disc |-> t]
HStr(s) == [str |-> s]
HLen(n) == [len |-> n]
Unreachable == <<[panic |-> "unreachable"]>>

RECURSIVE HashSeq(_, _)
RECURSIVE HashNoSimplify(_)
RECURSIVE Hash(_)

\* a hash that writes the variant of the expression as written, Group included
HashNoSimplify(e) ==
    <<HDisc(e.tag)>> \o
        (CASE e.tag \in {"Literal", "Generic"} -> <<HStr(e.lit)>>
           [] e.tag = "Variable" -> <<HStr(e.var)>>
           [] e.tag \in {"Tautology", "Contradiction"} -> <<>>
           [] e.tag \in GroupTags -> HashNoSimplify(e.expr)
           [] e.tag = "Function" -> <<HStr(e.func)>> \o HashSeq(e.args, 1)
           [] e.tag = "Predicate" -> <<HStr(e.pred)>> \o HashSeq(e.args, 1)
           [] e.tag = "Not" -> HashNoSimplify(e.expr)
           [] e.tag \in BinaryTags -> HashNoSimplify(e.left) \o HashNoSimplify(e.right)
           [] e.tag \in QuantifierTags -> <<HStr(e.iter)>> \o HashNoSimplify(e.expr)
           [] e.tag = "UnknownOperator" ->
                 HashNoSimplify(e.left) \o <<HStr(e.operator)>> \o HashNoSimplify(e.right))

\* <Vec<Expr> as Hash>::hash: the length, then every element from index i on
HashSeq(as, i) ==
    IF i = 1 THEN <<HLen(Len(as))>> \o (IF Len(as) = 0 THEN <<>> ELSE Hash(as[1]) \o HashSeq(as, 2))
    ELSE IF i > Len(as) THEN <<>>
    ELSE Hash(as[i]) \o HashSeq(as, i + 1)

\* <Expr as Hash>::hash
Hash(e) ==
    LET thing == Simplify(e)
    IN  <<HDisc(Discriminant(thing))>> \o
        (CASE thing.tag \in {"Literal", "Generic"} -> <<HStr(thing.lit)>>
           [] thing.tag = "Variable" -> <<HStr(thing.var)>>
           [] thing.tag \in {"Tautology", "Contradiction"} -> <<>>
           [] thing.tag \in GroupTags -> Unreachable
           [] thing.tag = "Function" -> <<HStr(thing.func)>> \o HashSeq(thing.args, 1)
           [] thing.tag = "Predicate" -> <<HStr(thing.pred)>> \o HashSeq(thing.args, 1)
           [] thing.tag = "Not" -> Hash(thing.expr)
           [] thing.tag \in BinaryTags -> Hash(thing.left) \o Hash(thing.right)
           [] thing.tag \in QuantifierTags -> <<HStr(thing.iter)>> \o Hash(thing.expr)
           [] thing.tag = "UnknownOperator" ->
                 Hash(thing.left) \o <<HStr(thing.operator)>> \o Hash(thing.right))

(***************************************************************************)
(* Input formulas.  Regroupings(e, k) is every formula obtained from e by  *)
(* inserting exactly k bracket pairs, of any of the three styles, around   *)
(* any of its nodes: the ways a user can parenthesize the same formula.    *)
(***************************************************************************)
Names == <<"A", "B", "C", "D", "E", "F">>
LitNames == {Names[i] : i \in 1..NumLits}
Lits == {Literal(n) : n \in LitNames}

RECURSIVE Wrap(_, _)
Wrap(S, j) ==
    IF j = 0 THEN S
    ELSE LET W == Wrap(S, j - 1)
         IN  {Group(e) : e \in W} \cup {Group2(e) : e \in W} \cup {Group3(e) : e \in W}

RECURSIVE Regroupings(_, _)
RECURSIVE RegroupSeq(_, _)
RECURSIVE RegroupInside(_, _)

\* every sequence obtained from as by inserting exactly k bracket pairs
RegroupSeq(as, k) ==
    IF Len(as) = 0 THEN (IF k = 0 THEN {<<>>} ELSE {})
    ELSE UNION {{<<h>> \o t : h \in Regroupings(Head(as), i), t \in RegroupSeq(Tail(as), k - i)} :
                i \in 0..k}

\* exactly k bracket pairs inserted strictly below the root of e
RegroupInside(e, k) ==
    CASE e.tag \in {"Not"} \cup GroupTags ->
            {[e EXCEPT !.expr = c] : c \in Regroupings(e.expr, k)}
      [] e.tag \in QuantifierTags ->
            {[e EXCEPT !.expr = c] : c \in Regroupings(e.expr, k)}
      [] e.tag \in BinaryTags \cup {"UnknownOperator"} ->
            UNION {{[e EXCEPT !.left = l, !.right = r] :
                        l \in Regroupings(e.left, i), r \in Regroupings(e.right, k - i)} :
                   i \in 0..k}
      [] e.tag \in {"Function", "Predicate"} ->
            {[e EXCEPT !.args = as] : as \in RegroupSeq(e.args, k)}
      [] OTHER -> IF k = 0 THEN {e} ELSE {}

Regroupings(e, k) ==
    UNION {Wrap(RegroupInside(e, k - j), j) : j \in 0..k}

\* a set of formulas with up to MaxGroup bracket pairs inserted in each
WithGroups(S) == UNION {Regroupings(e, k) : e \in S, k \in 0..MaxGroup}

(***************************************************************************)
(* Comparison and hashing of two formulas.                                 *)
(***************************************************************************)
EqCores ==
    Lits \cup
    { Variable("x"), Generic("a"), Tautology, Contradiction,
      Not(Literal("A")),
      And(Literal("A"), Literal("A")),
      Biconditional(Literal("A"), Literal("A")),
      Universal("x", Predicate("P", <<Variable("x")>>)),
      Existential("x", Variable("x")),
      Predicate("P", <<Variable("x"), Generic("a")>>),
      Function("f", <<Literal("A")>>),
      UnknownOperator(Literal("A"), "=", Literal("A")) }

\* the parenthesizations of each of these formulas
EqVariants == [c \in EqCores |-> WithGroups({c})]

EqExprs == UNION {EqVariants[c] : c \in EqCores}

RECURSIVE StripGroups(_)
\* the formula with every bracket pair erased, at every depth
StripGroups(e) ==
    CASE e.tag \in GroupTags -> StripGroups(e.expr)
      [] e.tag \in {"Not"} \cup QuantifierTags -> [e EXCEPT !.expr = StripGroups(e.expr)]
      [] e.tag \in BinaryTags \cup {"UnknownOperator"} ->
            [e EXCEPT !.left = StripGroups(e.left), !.right = StripGroups(e.right)]
      [] e.tag \in {"Function", "Predicate"} ->
            [e EXCEPT !.args = [i \in 1..Len(e.args) |-> StripGroups(e.args[i])]]
      [] OTHER -> e

IdleEq == /\ lhs = Idle /\ rhs = Idle /\ eq_result = Idle
          /\ hash_lhs = Idle /\ hash_rhs = Idle
IdleDecompose == rule = Idle /\ expr = Idle /\ decomposed = Idle
IdleList == fn = Idle /\ list = Idle /\ set = Idle /\ starts_with = Idle
IdleBranch == /\ branch_rule = Idle /\ statements = Idle
              /\ sub = Idle /\ current_error = Idle
IdleValidate == formula = Idle /\ validation = Idle
IdleParse == /\ tokens = Idle /\ spaces = Idle /\ ids = Idle
             /\ parsed = Idle /\ respaced = Idle /\ reparsed = Idle
IdleEditor == /\ editor_branches = Idle /\ editor_statements = Idle
              /\ focused_branch = Idle /\ focused_statement = Idle
              /\ branch_states = Idle /\ uid_count = Idle /\ deleted = Idle
IdleCustom == error_spans = Idle /\ custom = Idle

InitEq ==
    /\ pc = "input"
    /\ lhs \in EqExprs
    /\ rhs = Idle /\ eq_result = Idle /\ hash_lhs = Idle /\ hash_rhs = Idle
    /\ IdleDecompose /\ IdleList /\ IdleBranch /\ IdleValidate /\ IdleParse
    /\ IdleEditor /\ IdleCustom

\* lhs == other and the two hashes, other being lhs parenthesized differently,
\* lhs in one more bracket pair, or one of the unparenthesized formulas
Compare ==
    /\ pc = "input"
    /\ \E other \in EqVariants[StripGroups(lhs)] \cup Wrap({lhs}, 1) \cup EqCores :
          /\ rhs' = other
          /\ eq_result' = ExprEq(lhs, other)
          /\ hash_lhs' = Hash(lhs)
          /\ hash_rhs' = Hash(other)
    /\ pc' = "done"
    /\ UNCHANGED <<lhs, decVars, listVars, branchVars, valVars, parseVars, editorVars, customVars>>

NextEq == Compare

SpecEq == InitEq /\ [][NextEq]_vars

(***************************************************************************)
(* std::collections::HashSet<Expr>: a set of values no two of which are    *)
(* equal; a lookup finds a stored value with the same hash that is == to   *)
(* the key.                                                                *)
(***************************************************************************)
HashSetContains(s, v) == \E e \in s : Hash(e) = Hash(v) /\ ExprEq(e, v)

HashSetInsert(s, v) == IF HashSetContains(s, v) THEN s ELSE s \cup {v}

RECURSIVE HashSetFromArray(_, _)
\* HashSet::from([..]): the elements inserted in order, starting from acc
HashSetFromArray(arr, acc) ==
    IF Len(arr) = 0 THEN acc
    ELSE HashSetFromArray(Tail(arr), HashSetInsert(acc, Head(arr)))

HashSetFrom(arr) == HashSetFromArray(arr, {})

(***************************************************************************)
(* engine/src/rules/branch.rs: BranchRule and BranchRule::decompose.       *)
(***************************************************************************)
BranchRule == {"Or", "Nand", "Conditional", "Biconditional", "NotBiconditional"}

OkBranches(one, two) == [ok |-> TRUE, one |-> one, two |-> two]
\* Err(ValidationError::InvalidStatementType(expected, actual))
InvalidStatementType(expected, actual) ==
    [ok |-> FALSE, expected |-> expected, actual |-> actual]

\* the Or arm; e is the simplified expression
DecomposeOr(e) ==
    IF e.tag = "Or"
    THEN OkBranches(HashSetFrom(<<Simplify(e.left)>>), HashSetFrom(<<Simplify(e.right)>>))
    ELSE InvalidStatementType("Or", Discriminant(e))

\* a Nand arm that negates the two operands
DecomposeNandNegated(e) ==
    IF e.tag = "Not"
    THEN IF Simplify(e.expr).tag = "And"
         THEN OkBranches(HashSetFrom(<<Not(Simplify(Simplify(e.expr).left))>>),
                         HashSetFrom(<<Not(Simplify(Simplify(e.expr).right))>>))
         ELSE InvalidStatementType("And", Discriminant(Simplify(e.expr)))
    ELSE InvalidStatementType("Not", Discriminant(e))

\* a Nand arm that reports the negated operand's variant as written
DecomposeNandRawActual(e) ==
    IF e.tag = "Not"
    THEN IF Simplify(e.expr).tag = "And"
         THEN OkBranches(HashSetFrom(<<Simplify(Simplify(e.expr).left)>>),
                         HashSetFrom(<<Simplify(Simplify(e.expr).right)>>))
         ELSE InvalidStatementType("And", Discriminant(e.expr))
    ELSE InvalidStatementType("Not", Discriminant(e))

\* the Nand arm
DecomposeNand(e) ==
    IF e.tag = "Not"
    THEN IF Simplify(e.expr).tag = "And"
         THEN OkBranches(HashSetFrom(<<Simplify(Simplify(e.expr).left)>>),
                         HashSetFrom(<<Simplify(Simplify(e.expr).right)>>))
         ELSE InvalidStatementType("And", Discriminant(Simplify(e.expr)))
    ELSE InvalidStatementType("Not", Discriminant(e))

\* a Conditional arm that forgets to negate the antecedent
DecomposeConditionalUnnegated(e) ==
    IF e.tag = "Conditional"
    THEN OkBranches(HashSetFrom(<<Simplify(e.left)>>), HashSetFrom(<<Simplify(e.right)>>))
    ELSE InvalidStatementType("Conditional", Discriminant(e))

\* the Conditional arm
DecomposeConditional(e) ==
    IF e.tag = "Conditional"
    THEN OkBranches(HashSetFrom(<<Not(Simplify(e.left))>>), HashSetFrom(<<Simplify(e.right)>>))
    ELSE InvalidStatementType("Conditional", Discriminant(e))

\* the Biconditional arm
DecomposeBiconditional(e) ==
    IF e.tag = "Biconditional"
    THEN OkBranches(HashSetFrom(<<Simplify(e.left), Simplify(e.right)>>),
                    HashSetFrom(<<Not(Simplify(e.left)), Not(Simplify(e.right))>>))
    ELSE InvalidStatementType("Biconditional", Discriminant(e))

\* the NotBiconditional arm
DecomposeNotBiconditional(e) ==
    IF e.tag = "Not"
    THEN IF Simplify(e.expr).tag = "Biconditional"
         THEN OkBranches(
                 HashSetFrom(<<Simplify(Simplify(e.expr).left),
                               Not(Simplify(Simplify(e.expr).right))>>),
                 HashSetFrom(<<Not(Simplify(Simplify(e.expr).left)),
                               Simplify(Simplify(e.expr).right)>>))
         ELSE InvalidStatementType("Biconditional", Discriminant(Simplify(e.expr)))
    ELSE InvalidStatementType("Not", Discriminant(e))

\* a decompose that matches the formula as given
DecomposeAsGiven(r, e) ==
    CASE r = "Or" -> DecomposeOr(e)
      [] r = "Nand" -> DecomposeNand(e)
      [] r = "Conditional" -> DecomposeConditional(e)
      [] r = "Biconditional" -> DecomposeBiconditional(e)
      [] r = "NotBiconditional" -> DecomposeNotBiconditional(e)

\* BranchRule::decompose(&self, expr)
Decompose(r, e) ==
    LET s == Simplify(e)
    IN  CASE r = "Or" -> DecomposeOr(s)
          [] r = "Nand" -> DecomposeNand(s)
          [] r = "Conditional" -> DecomposeConditional(s)
          [] r = "Biconditional" -> DecomposeBiconditional(s)
          [] r = "NotBiconditional" -> DecomposeNotBiconditional(s)

(***************************************************************************)
(* Decomposition of one formula by one rule.                               *)
(***************************************************************************)
DecCores ==
    LET Bin == {[tag |-> op, left |-> l, right |-> r] :
                    op \in BinaryTags \ {"Xor"}, l \in Lits, r \in Lits}
        Other == {Literal("A"), Tautology, Xor(Literal("A"), Literal("A")),
                  Universal("x", Variable("x")),
                  Biconditional(Not(Literal("A")), Not(Literal("A")))}
    IN  Bin \cup Other \cup {Not(e) : e \in Bin \cup Other}

DecExprs == WithGroups(DecCores)

InitDecompose ==
    /\ pc = "input"
    /\ expr \in DecExprs
    /\ rule = Idle /\ decomposed = Idle
    /\ IdleEq /\ IdleList /\ IdleBranch /\ IdleValidate /\ IdleParse
    /\ IdleEditor /\ IdleCustom

\* rule.decompose(&expr) for a rule of the selector
DecomposeCall ==
    /\ pc = "input"
    /\ \E r \in BranchRule :
          /\ rule' = r
          /\ decomposed' = Decompose(r, expr)
    /\ pc' = "done"
    /\ UNCHANGED <<expr, eqVars, listVars, branchVars, valVars, parseVars, editorVars, customVars>>

NextDecompose == DecomposeCall

SpecDecompose == InitDecompose /\ [][NextDecompose]_vars

(***************************************************************************)
(* engine/src/util.rs.  An Option<Expr> is [some |-> e] or NoneExpr.  The  *)
(* result of a call records, beside the returned bool, the indices of the  *)
(* items the loop body examined.                                           *)
(***************************************************************************)
SomeExpr(e) == [some |-> e]
NoneExpr == [none |-> TRUE]
IsSome(v) == "some" \in DOMAIN v

\* <Option<Expr> as Hash>::hash with a fresh DefaultHasher
HashOption(v) ==
    IF IsSome(v) THEN <<HDisc("Some")>> \o Hash(v.some) ELSE <<HDisc("None")>>

Returned(b, examined) == [result |-> b, examined |-> examined]

RECURSIVE ListLoop(_, _, _, _, _)
\* the while-let loop of expr_list_starts_with, about to call list.next()
\* for item i with `found` members counted
ListLoop(l, s, i, found, examined) ==
    IF i > Len(l) \/ found >= Cardinality(s)
    THEN Returned(found >= Cardinality(s), examined)
    ELSE IF HashSetContains(s, l[i])
         THEN ListLoop(l, s, i + 1, found + 1, examined \cup {i})
         ELSE Returned(FALSE, examined \cup {i})

RECURSIVE ListLoopSkipping(_, _, _, _, _)
\* a loop that passes over a non-member instead of returning false
ListLoopSkipping(l, s, i, found, examined) ==
    IF i > Len(l) \/ found >= Cardinality(s)
    THEN Returned(found >= Cardinality(s), examined)
    ELSE IF HashSetContains(s, l[i])
         THEN ListLoopSkipping(l, s, i + 1, found + 1, examined \cup {i})
         ELSE ListLoopSkipping(l, s, i + 1, found, examined \cup {i})

ExprListStartsWithSkipping(l, s) == ListLoopSkipping(l, s, 1, 0, {})

\* expr_list_starts_with(list, set)
ExprListStartsWith(l, s) == ListLoop(l, s, 1, 0, {})

RECURSIVE MaybeLoop(_, _, _, _, _, _)
\* the while-let loop of expr_maybe_list_starts_with; matched is the set of
\* hashes of the items counted so far
MaybeLoop(l, s, i, found, matched, examined) ==
    IF i > Len(l) \/ found >= Cardinality(s)
    THEN Returned(found >= Cardinality(s), examined)
    ELSE LET v == l[i]
             h == HashOption(v)
         IN  IF IsSome(v) /\ HashSetContains(s, v.some) /\ h \notin matched
             THEN MaybeLoop(l, s, i + 1, found + 1, matched \cup {h}, examined \cup {i})
             ELSE Returned(FALSE, examined \cup {i})

RECURSIVE MaybeLoopNoDedup(_, _, _, _, _, _)
\* a loop that never consults matched
MaybeLoopNoDedup(l, s, i, found, matched, examined) ==
    IF i > Len(l) \/ found >= Cardinality(s)
    THEN Returned(found >= Cardinality(s), examined)
    ELSE LET v == l[i]
         IN  IF IsSome(v) /\ HashSetContains(s, v.some)
             THEN MaybeLoopNoDedup(l, s, i + 1, found + 1, matched, examined \cup {i})
             ELSE Returned(FALSE, examined \cup {i})

RECURSIVE MaybeLoopSkipNone(_, _, _, _, _, _)
\* a loop that passes over a None item
MaybeLoopSkipNone(l, s, i, found, matched, examined) ==
    IF i > Len(l) \/ found >= Cardinality(s)
    THEN Returned(found >= Cardinality(s), examined)
    ELSE LET v == l[i]
             h == HashOption(v)
         IN  IF ~IsSome(v)
             THEN MaybeLoopSkipNone(l, s, i + 1, found, matched, examined \cup {i})
             ELSE IF HashSetContains(s, v.some) /\ h \notin matched
             THEN MaybeLoopSkipNone(l, s, i + 1, found + 1, matched \cup {h}, examined \cup {i})
             ELSE Returned(FALSE, examined \cup {i})

ExprMaybeListStartsWithNoDedup(l, s) == MaybeLoopNoDedup(l, s, 1, 0, {}, {})

ExprMaybeListStartsWithSkipNone(l, s) == MaybeLoopSkipNone(l, s, 1, 0, {}, {})

\* expr_maybe_list_starts_with(list, set)
ExprMaybeListStartsWith(l, s) == MaybeLoop(l, s, 1, 0, {}, {})

(***************************************************************************)
(* One call of either utility on a list and a required set.                *)
(***************************************************************************)
ListItems == {SomeExpr(e) : e \in Lits \cup {Group(Literal("A")), Not(Literal("A"))}}
                 \cup {NoneExpr}

RECURSIVE SeqsUpTo(_, _)
\* the sequences over S of length at most n
SeqsUpTo(S, n) ==
    IF n = 0 THEN {<<>>}
    ELSE LET P == SeqsUpTo(S, n - 1)
         IN  P \cup {Append(q, x) : q \in {r \in P : Len(r) = n - 1}, x \in S}

\* hash sets: no two of these formulas are equal
RequiredSets == SUBSET (Lits \cup {Not(Group2(Literal("A")))})

\* the Expr items of a list without None
Exprs(l) == [i \in 1..Len(l) |-> l[i].some]

InitList ==
    /\ pc = "input"
    /\ list \in SeqsUpTo(ListItems, MaxLen)
    /\ set \in RequiredSets
    /\ fn = Idle /\ starts_with = Idle
    /\ IdleEq /\ IdleDecompose /\ IdleBranch /\ IdleValidate /\ IdleParse
    /\ IdleEditor /\ IdleCustom

\* expr_list_starts_with(list.iter(), &set): the items are &Expr
ListStartsWithCall ==
    /\ pc = "input"
    /\ \A i \in 1..Len(list) : IsSome(list[i])
    /\ fn' = "expr_list_starts_with"
    /\ starts_with' = ExprListStartsWith(Exprs(list), set)
    /\ pc' = "done"
    /\ UNCHANGED <<list, set, eqVars, decVars, branchVars, valVars, parseVars, editorVars, customVars>>

\* expr_maybe_list_starts_with(list.iter(), &set)
MaybeListStartsWithCall ==
    /\ pc = "input"
    /\ fn' = "expr_maybe_list_starts_with"
    /\ starts_with' = ExprMaybeListStartsWith(list, set)
    /\ pc' = "done"
    /\ UNCHANGED <<list, set, eqVars, decVars, branchVars, valVars, parseVars, editorVars, customVars>>

NextList == ListStartsWithCall \/ MaybeListStartsWithCall

SpecList == InitList /\ [][NextList]_vars

(***************************************************************************)
(* src/app/components/editor/branch.rs: BranchError and the two memos of   *)
(* BranchState::new.  A sub-branch is [uid, statements]; a statement is    *)
(* represented by its expr signal, an Option<Expr>.                        *)
(***************************************************************************)
NoRule == "None"
NoSub == [none |-> TRUE]
SomeSub(one, two) == [some |-> <<one, two>>]
SubBranchState(u, stmts) == [uid |-> u, statements |-> stmts]

NoError == [err |-> "None"]
NoRuleSelected == [err |-> "NoRuleSelected"]
NoStatements == [err |-> "NoStatements"]
DependentStatementError == [err |-> "DependentStatementError"]
Root(e) == [err |-> "Root", cause |-> e]
SubBranch(u) == [err |-> "SubBranch", uid |-> u]
SubBranches == [err |-> "SubBranches"]

\* statements.read().last().map(|(_, v)| v.expr().read()): are there statements
HasRootStatement(stmts) == Len(stmts) > 0
\* the root statement's Option<Expr>
RootStatement(stmts) == stmts[Len(stmts)]

\* a root statement taken from the first statement of the branch
RootStatementFirst(stmts) == stmts[1]

\* the decomposed_rule memo, where it is Some
DecomposedRule(r, stmts) == Decompose(r, Simplify(RootStatement(stmts).some))

\* a verdict that pairs each required set with the same sub-branch order only
SubBranchVerdictSameOrder(one, two, three, four, sub1, sub2) ==
    IF one /\ four THEN NoError
    ELSE IF one \/ two THEN SubBranch(sub2.uid)
    ELSE IF three \/ four THEN SubBranch(sub1.uid)
    ELSE SubBranches

\* a verdict that accepts two sub-branches that start with the same set
SubBranchVerdictSameSet(one, two, three, four, sub1, sub2) ==
    IF (one /\ four) \/ (two /\ three) \/ (one /\ three) \/ (two /\ four) THEN NoError
    ELSE IF one \/ two THEN SubBranch(sub2.uid)
    ELSE IF three \/ four THEN SubBranch(sub1.uid)
    ELSE SubBranches

\* a verdict that names the sub-branch that is right instead of the other
SubBranchVerdictNamesRight(one, two, three, four, sub1, sub2) ==
    IF (one /\ four) \/ (two /\ three) THEN NoError
    ELSE IF one \/ two THEN SubBranch(sub1.uid)
    ELSE IF three \/ four THEN SubBranch(sub2.uid)
    ELSE SubBranches

\* match (one, two, three, four)
SubBranchVerdict(one, two, three, four, sub1, sub2) ==
    IF (one /\ four) \/ (two /\ three) THEN NoError
    ELSE IF one \/ two THEN SubBranch(sub2.uid)
    ELSE IF three \/ four THEN SubBranch(sub1.uid)
    ELSE SubBranches

\* the Ok arm of the current_error memo
CheckSubBranches(correct1, correct2, sub1, sub2) ==
    SubBranchVerdict(ExprMaybeListStartsWith(sub1.statements, correct1).result,
                     ExprMaybeListStartsWith(sub1.statements, correct2).result,
                     ExprMaybeListStartsWith(sub2.statements, correct1).result,
                     ExprMaybeListStartsWith(sub2.statements, correct2).result,
                     sub1, sub2)

\* a current_error that looks at the rule and the sub-branches before the
\* root statement
CurrentErrorRuleFirst(r, s, stmts) ==
    IF r = NoRule /\ IsSome(s) THEN NoRuleSelected
    ELSE IF r # NoRule /\ ~IsSome(s) THEN NoStatements
    ELSE IF HasRootStatement(stmts) /\ ~IsSome(RootStatement(stmts))
    THEN DependentStatementError
    ELSE IF r # NoRule /\ IsSome(s) /\ HasRootStatement(stmts)
    THEN LET d == DecomposedRule(r, stmts)
         IN  IF d.ok THEN CheckSubBranches(d.one, d.two, s.some[1], s.some[2])
             ELSE Root(d)
    ELSE NoError

\* the current_error memo
CurrentError(r, s, stmts) ==
    IF HasRootStatement(stmts) /\ ~IsSome(RootStatement(stmts))
    THEN DependentStatementError
    ELSE IF r = NoRule /\ IsSome(s) THEN NoRuleSelected
    ELSE IF r # NoRule /\ ~IsSome(s) THEN NoStatements
    ELSE IF r # NoRule /\ IsSome(s) /\ HasRootStatement(stmts)
    THEN LET d == DecomposedRule(r, stmts)
         IN  IF d.ok THEN CheckSubBranches(d.one, d.two, s.some[1], s.some[2])
             ELSE Root(d)
    ELSE NoError

\* root statements of the branches examined: unparsed, decomposable by some
\* rule, bracketed, with equal operands, and not decomposable at all
RootValues ==
    {NoneExpr} \cup
    {SomeExpr(e) : e \in {Or(Literal("A"), Literal("B")),
                          Or(Literal("A"), Group(Literal("A"))),
                          Not(And(Literal("A"), Literal("B"))),
                          Conditional(Literal("A"), Literal("B")),
                          Group(Biconditional(Literal("A"), Literal("B"))),
                          Not(Group2(Biconditional(Literal("A"), Literal("B")))),
                          Literal("A")}}

\* the statements of the branches examined: none, one, or a premise first
RootStatements ==
    {<<>>} \cup {<<r>> : r \in RootValues}
           \cup {<<SomeExpr(Or(Literal("A"), Literal("B"))), r>> :
                    r \in {NoneExpr, SomeExpr(Literal("A")),
                           SomeExpr(Conditional(Literal("A"), Literal("B")))}}

\* what a statement of a sub-branch holds
SubStatementValues ==
    {NoneExpr} \cup {SomeExpr(e) : e \in {Literal("A"), Literal("B"),
                                          Not(Literal("A")), Not(Literal("B"))}}

SubStatements == SeqsUpTo(SubStatementValues, MaxStmts)

\* a branch as BranchState::new leaves it (no sub-branches), with a rule
\* selection and statements already entered
InitBranch ==
    /\ pc = "input"
    /\ branch_rule \in BranchRule \cup {NoRule}
    /\ statements \in RootStatements
    /\ sub = NoSub
    /\ current_error = CurrentError(branch_rule, sub, statements)
    /\ IdleEq /\ IdleDecompose /\ IdleList /\ IdleValidate /\ IdleParse
    /\ IdleEditor /\ IdleCustom

\* sub.set(Some(..)) and the statements entered in the two sub-branches; the
\* current_error memo follows the signals it reads
SetSub ==
    /\ pc = "input"
    /\ pc' = "done"
    /\ \E l1 \in SubStatements, l2 \in SubStatements :
          sub' = SomeSub(SubBranchState("s1", l1), SubBranchState("s2", l2))
    /\ current_error' = CurrentError(branch_rule, sub', statements)
    /\ UNCHANGED <<branch_rule, statements, eqVars, decVars, listVars, valVars, parseVars, editorVars, customVars>>

NextBranch == SetSub

SpecBranch == InitBranch /\ [][NextBranch]_vars

(***************************************************************************)
(* engine/src/syntax/validate.rs.  A binder (iter: Variable) is its name.  *)
(***************************************************************************)
ValidOk == [ok |-> TRUE]
NotSupported(what) == [ok |-> FALSE, err |-> "NotSupported", what |-> what]
InvalidVariable(v) == [ok |-> FALSE, err |-> "InvalidVariable", var |-> v]

RECURSIVE Validate(_, _)
RECURSIVE ValidateLeaky(_, _)
RECURSIVE TryForEach(_, _, _)
RECURSIVE TryForEachLeaky(_, _, _)

\* the variables a formula's quantifiers bind, whatever their scope
Binders(e) ==
    LET RECURSIVE B(_)
        B(x) ==
            CASE x.tag \in GroupTags \cup {"Not"} -> B(x.expr)
              [] x.tag \in QuantifierTags -> {x.iter} \cup B(x.expr)
              [] x.tag \in BinaryTags \cup {"UnknownOperator"} -> B(x.left) \cup B(x.right)
              [] x.tag \in {"Function", "Predicate"} ->
                    UNION {B(x.args[i]) : i \in 1..Len(x.args)}
              [] OTHER -> {}
    IN  B(e)

\* a try_for_each whose later operands see the binders of the earlier ones
TryForEachLeaky(es, i, current_vars) ==
    IF i > Len(es) THEN ValidOk
    ELSE LET r == ValidateLeaky(es[i], current_vars)
         IN  IF r.ok THEN TryForEachLeaky(es, i + 1, current_vars \cup Binders(es[i]))
             ELSE r

\* a validate whose bindings outlive the quantifier's body
ValidateLeaky(ex, current_vars) ==
    LET e == Simplify(ex)
    IN  CASE e.tag \in {"Literal", "Tautology", "Contradiction"} -> ValidOk
          [] e.tag = "Generic" -> NotSupported("Generics")
          [] e.tag = "Variable" ->
                IF e.var \in current_vars THEN ValidOk ELSE InvalidVariable(e.var)
          [] e.tag \in GroupTags \cup {"Not"} -> ValidateLeaky(e.expr, current_vars)
          [] e.tag \in {"Function", "Predicate"} -> TryForEachLeaky(e.args, 1, current_vars)
          [] e.tag \in BinaryTags \cup {"UnknownOperator"} ->
                TryForEachLeaky(<<e.left, e.right>>, 1, current_vars)
          [] e.tag \in QuantifierTags -> ValidateLeaky(e.expr, current_vars \cup {e.iter})

ValidateSyntaxLeaky(ex) == ValidateLeaky(ex, {})

RECURSIVE TryForEachFromLast(_, _, _)
\* a try_for_each that returns the error of the last failing item
TryForEachFromLast(es, i, current_vars) ==
    IF i > Len(es) THEN ValidOk
    ELSE LET rest == TryForEachFromLast(es, i + 1, current_vars)
         IN  IF rest.ok THEN Validate(es[i], current_vars) ELSE rest

\* .iter().try_for_each(|expr| validate(expr, current_vars.clone()))
TryForEach(es, i, current_vars) ==
    IF i > Len(es) THEN ValidOk
    ELSE LET r == Validate(es[i], current_vars)
         IN  IF r.ok THEN TryForEach(es, i + 1, current_vars) ELSE r

\* validate(ex, current_vars)
Validate(ex, current_vars) ==
    LET e == Simplify(ex)
    IN  CASE e.tag \in {"Literal", "Tautology", "Contradiction"} -> ValidOk
          [] e.tag = "Generic" -> NotSupported("Generics")
          [] e.tag = "Variable" ->
                IF e.var \in current_vars THEN ValidOk ELSE InvalidVariable(e.var)
          [] e.tag \in GroupTags \cup {"Not"} -> Validate(e.expr, current_vars)
          [] e.tag \in {"Function", "Predicate"} -> TryForEach(e.args, 1, current_vars)
          [] e.tag \in BinaryTags \cup {"UnknownOperator"} ->
                TryForEach(<<e.left, e.right>>, 1, current_vars)
          [] e.tag \in QuantifierTags -> Validate(e.expr, current_vars \cup {e.iter})

\* validate_syntax(expr)
ValidateSyntax(ex) == Validate(ex, {})

\* the formulas validated: atoms, then one and two levels of operators
VarNames == {"x", "y"}
ValAtoms ==
    Lits \cup {Tautology, Contradiction, Generic("a")}
         \cup {Variable(v) : v \in VarNames}
         \cup {Predicate("P", <<Variable("x")>>),
               Predicate("P", <<Literal("A"), Variable("y")>>),
               Function("f", <<Variable("x"), Generic("a")>>)}
ValQuantified(S) ==
    {Universal(v, e) : v \in VarNames, e \in S} \cup
    {Existential(v, e) : v \in VarNames, e \in S}
ValLevel1 ==
    ValAtoms \cup {Not(e) : e \in ValAtoms} \cup ValQuantified(ValAtoms)
ValLevel2 ==
    ValQuantified(ValLevel1) \cup
    {And(l, r) : l \in ValQuantified(ValAtoms), r \in ValAtoms} \cup
    {Conditional(l, r) : l \in ValAtoms, r \in ValQuantified(ValAtoms)} \cup
    {UnknownOperator(l, "=", r) : l \in ValAtoms, r \in ValAtoms} \cup
    {Predicate("Q", <<l, r>>) : l \in ValQuantified(ValAtoms), r \in ValAtoms}
ValBracketed ==
    WithGroups({Universal("x", Predicate("P", <<Variable("x")>>)),
                And(Existential("x", Variable("x")), Variable("x")),
                Not(Generic("a")),
                Or(Literal("A"), Tautology)})
ValExprs == ValLevel1 \cup ValLevel2 \cup ValBracketed

InitValidate ==
    /\ pc = "input"
    /\ formula \in ValExprs
    /\ validation = Idle
    /\ IdleEq /\ IdleDecompose /\ IdleList /\ IdleBranch /\ IdleParse
    /\ IdleEditor /\ IdleCustom

\* validate_syntax(&formula)
ValidateSyntaxCall ==
    /\ pc = "input"
    /\ pc' = "done"
    /\ validation' = ValidateSyntax(formula)
    /\ UNCHANGED <<formula, eqVars, decVars, listVars, branchVars, parseVars, editorVars, customVars>>

NextValidate == ValidateSyntaxCall

SpecValidate == InitValidate /\ [][NextValidate]_vars

(***************************************************************************)
(* grammar/src/expr.rs, expr/constantexpr.rs: the formulas the parser      *)
(* builds.  The binary and unary variants are those of the constructors    *)
(* above; a name is the sequence of its characters.                        *)
(***************************************************************************)
ParsedVariable(name, id) == [name |-> name, id |-> id]
ConstantValue(c) == [tag |-> "ConstantValue", value |-> c]
Invalid == [tag |-> "Invalid"]
ConstConstant(name) == [ctag |-> "Constant", name |-> name]
ConstVariable(v) == [ctag |-> "Variable", var |-> v]
ConstNumber(n) == [ctag |-> "Number", num |-> n]
ConstFunction(f, as) == [ctag |-> "Function", func |-> f, args |-> as]
ConstOperator(op, a, b) == [ctag |-> "Operator", operator |-> op, left |-> a, right |-> b]

\* the identity of an occurrence that resolves to no binder
InvalidId == "**invalid**"

(***************************************************************************)
(* grammar/src/parser.rs.  The input is a sequence of characters, each a   *)
(* one-character string; a character outside ASCII is written by its code  *)
(* point.  A position is the index of the next character; a span is the    *)
(* pair of offsets <<start, end>> of chumsky's SimpleSpan.                 *)
(***************************************************************************)
AndSign == "U+2227"
OrSign == "U+2228"
XorSign == "U+2295"
ToSign == "U+2192"
IffSign == "U+2194"
NotSign == "U+00AC"
ForallSign == "U+2200"
ExistsSign == "U+2203"
NeSign == "U+2260"
TopSign == "U+22A4"
BotSign == "U+22A5"

UpperChars == {"A", "B", "C", "P", "Q"}
ConstantChars == {"a", "b", "c", "f"}
VariableChars == {"x", "y", "z"}
DigitChars == {"0", "1", "2"}
WordChars == UpperChars \cup ConstantChars \cup VariableChars \cup DigitChars
WhitespaceChars == {" "}
BracketChars == {"(", ")", "[", "]", "{", "}"}
\* [^\w\s⊤⊥\(\)\[\]\{\}¬→↔∀@∃]
IsOperatorChar(c) ==
    /\ c \notin WordChars \cup WhitespaceChars \cup BracketChars
    /\ c \notin {TopSign, BotSign, NotSign, ToSign, IffSign, ForallSign, "@", ExistsSign}
    /\ c # "EOF"

\* the character at position p, or the end of the input
At(inp, p) == IF p \in 1..Len(inp.text) THEN inp.text[p] ELSE "EOF"

\* the span of the characters from position p up to position q
SpanOf(p, q) == <<p - 1, q - 1>>
\* Span::union
SpanUnion(a, b) ==
    <<IF a[1] < b[1] THEN a[1] ELSE b[1], IF a[2] > b[2] THEN a[2] ELSE b[2]>>

\* what a parser returns: Err(()), or the position reached, the output and
\* the errors emitted on the way (dropped with the result when an enclosing
\* alternative fails and the input is rewound)
Fail == [ok |-> FALSE]
Parsed(p, out, errs) == [ok |-> TRUE, pos |-> p, out |-> out, errs |-> errs]
Custom(span, msg) == [span |-> span, msg |-> msg]

RECURSIVE SkipWhitespace(_, _)
\* the whitespace .padded() skips
SkipWhitespace(inp, p) ==
    IF At(inp, p) \in WhitespaceChars THEN SkipWhitespace(inp, p + 1) ELSE p

\* just(s): the position after s, or 0
Just(inp, p, s) ==
    IF \A i \in 1..Len(s) : At(inp, p + i - 1) = s[i] THEN p + Len(s) ELSE 0

RECURSIVE RegexAlt(_, _, _, _)
\* regex("s1|s2|..."): the position after the first alternative that matches
RegexAlt(inp, p, alts, i) ==
    IF i > Len(alts) THEN 0
    ELSE IF Just(inp, p, alts[i]) # 0 THEN Just(inp, p, alts[i])
    ELSE RegexAlt(inp, p, alts, i + 1)

RECURSIVE WordEnd(_, _)
\* [a-zA-Z0-9]*
WordEnd(inp, p) == IF At(inp, p) \in WordChars THEN WordEnd(inp, p + 1) ELSE p

\* regex("[c][a-zA-Z0-9]*") for a class of first characters
RegexName(inp, p, first) == IF At(inp, p) \in first THEN WordEnd(inp, p + 1) ELSE 0

RECURSIVE DigitsEnd(_, _)
DigitsEnd(inp, p) == IF At(inp, p) \in DigitChars THEN DigitsEnd(inp, p + 1) ELSE p
\* regex("[0-9]+")
RegexDigits(inp, p) == IF At(inp, p) \in DigitChars THEN DigitsEnd(inp, p + 1) ELSE 0

\* the characters from position p up to position q
Slice(inp, p, q) == SubSeq(inp.text, p, q - 1)

DigitValue(c) == CASE c = "0" -> 0 [] c = "1" -> 1 [] c = "2" -> 2
RECURSIVE ParseDigits(_)
\* digits.parse::<isize>()
ParseDigits(ds) ==
    IF ds = <<>> THEN 0
    ELSE 10 * ParseDigits(SubSeq(ds, 1, Len(ds) - 1)) + DigitValue(ds[Len(ds)])

\* literal()
LiteralParser(inp, p) ==
    LET q == RegexName(inp, p, UpperChars)
    IN  IF q = 0 THEN Fail ELSE Parsed(q, Slice(inp, p, q), <<>>)

\* constant()
ConstantParser(inp, p) ==
    LET q == RegexName(inp, p, ConstantChars)
    IN  IF q = 0 THEN Fail ELSE Parsed(q, Slice(inp, p, q), <<>>)

\* the k of the k-th quantifier sign of the input, for the sign before p
QuantifierOrdinal(inp, p) ==
    Cardinality({i \in 1..(p - 1) : inp.text[i] \in {ForallSign, "@", ExistsSign, "/"}})

\* nanoid::nanoid!(5): a random string; inp.ids gives the one drawn for each
\* quantifier of the input
NanoId(inp, p) == inp.ids[QuantifierOrdinal(inp, p)]

\* variable(true)
NewVariable(inp, p) ==
    LET q == RegexName(inp, p, VariableChars)
    IN  IF q = 0 THEN Fail
        ELSE Parsed(q, ParsedVariable(Slice(inp, p, q), NanoId(inp, p)), <<>>)

\* a variable(false) that reports nothing
FoundVariableSilent(inp, p, ctx) ==
    LET q == RegexName(inp, p, VariableChars)
        v == Slice(inp, p, q)
    IN  IF q = 0 THEN Fail
        ELSE IF v \in DOMAIN ctx THEN Parsed(q, ctx[v], <<>>)
        ELSE Parsed(q, ParsedVariable(v, InvalidId), <<>>)

\* variable(false)
FoundVariable(inp, p, ctx) ==
    LET q == RegexName(inp, p, VariableChars)
        v == Slice(inp, p, q)
    IN  IF q = 0 THEN Fail
        ELSE IF v \in DOMAIN ctx THEN Parsed(q, ctx[v], <<>>)
        ELSE Parsed(q, ParsedVariable(v, InvalidId),
                    <<Custom(SpanOf(p, q), "This variable does not exist")>>)

\* regex(r"[^\w\s...]{1,2}"), before .padded()
RegexOperator(inp, p) ==
    IF ~IsOperatorChar(At(inp, p)) THEN 0
    ELSE IF IsOperatorChar(At(inp, p + 1)) THEN p + 2 ELSE p + 1

\* the three kinds of brackets of grouping()
Brackets == <<<<"(", ")">>, <<"[", "]">>, <<"{", "}">>>>

\* just(s).padded(): the position after the whitespace, s and the whitespace
\* after it, or 0
JustPadded(inp, p, s) ==
    LET q == Just(inp, SkipWhitespace(inp, p), s)
    IN  IF q = 0 THEN 0 ELSE SkipWhitespace(inp, q)

\* the value of an expression that is evaluated once and then named: the
\* result r of a parser in One({ .. r .. : r \in {parser} })
One(S) == CHOOSE x \in S : TRUE

\* .padded() around the result r of a parser run after the whitespace
Padded(inp, r) ==
    IF r.ok THEN Parsed(SkipWhitespace(inp, r.pos), r.out, r.errs) ELSE Fail

\* the recursive parsers, by name: "expr" is recursive(|expr| ..) of parser(),
\* "constant_expr" is constant_expr(), and "and_or_xor", "not", "quantifier"
\* are the atoms of parser() called so in its comments
RECURSIVE Run(_, _, _, _)

\* atom.delimited_by(just(open).padded(), just(close).padded()) for the i-th
\* kind of bracket, atom being the parser named k
Delimited(k, inp, p, ctx, i) ==
    LET open == JustPadded(inp, p, <<Brackets[i][1]>>)
    IN  IF open = 0 THEN Fail
        ELSE One({IF ~body.ok THEN Fail
                  ELSE LET close == JustPadded(inp, body.pos, <<Brackets[i][2]>>)
                       IN  IF close = 0 THEN Fail
                           ELSE Parsed(close, body.out, body.errs) :
                  body \in {Run(k, inp, open, ctx)}})

\* grouping(atom): the choice over the three kinds of brackets
Grouping(k, inp, p, ctx) ==
    One({IF round.ok THEN round
         ELSE One({IF square.ok THEN square ELSE Delimited(k, inp, p, ctx, 3) :
                   square \in {Delimited(k, inp, p, ctx, 2)}}) :
         round \in {Delimited(k, inp, p, ctx, 1)}})

RECURSIVE ConstArgsRest(_, _, _, _, _)
\* .separated_by(just(",")) after the first item
ConstArgsRest(inp, p, ctx, outs, errs) ==
    LET sep == Just(inp, p, <<",">>)
    IN  IF sep = 0 THEN Parsed(p, outs, errs)
        ELSE One({IF item.ok
                  THEN ConstArgsRest(inp, item.pos, ctx, Append(outs, item.out),
                                     errs \o item.errs)
                  ELSE Parsed(p, outs, errs) :
                  item \in {Run("constant_expr", inp, sep, ctx)}})

\* const_expr.separated_by(just(",")).at_least(1).collect()
\*     .delimited_by(just("("), just(")"))
ConstArgs(inp, p, ctx) ==
    LET open == Just(inp, p, <<"(">>)
    IN  IF open = 0 THEN Fail
        ELSE One({IF ~first.ok THEN Fail
                  ELSE One({IF Just(inp, items.pos, <<")">>) = 0 THEN Fail
                            ELSE Parsed(Just(inp, items.pos, <<")">>), items.out, items.errs) :
                            items \in {ConstArgsRest(inp, first.pos, ctx,
                                                     <<first.out>>, first.errs)}}) :
                  first \in {Run("constant_expr", inp, open, ctx)}})

\* function(const_expr)
FunctionParser(inp, p, ctx) ==
    LET func == ConstantParser(inp, p)
    IN  IF ~func.ok THEN Fail
        ELSE One({IF args.ok
                  THEN Parsed(args.pos, ConstFunction(func.out, args.out), args.errs)
                  ELSE Fail :
                  args \in {ConstArgs(inp, func.pos, ctx)}})

\* regex(r"[0-9]+").try_map(..)
NumberParser(inp, p) ==
    LET q == RegexDigits(inp, p)
    IN  IF q = 0 THEN Fail ELSE Parsed(q, ConstNumber(ParseDigits(Slice(inp, p, q))), <<>>)

\* constant_expr_atom(const_expr)
ConstantExprAtom(inp, p, ctx) ==
    LET const == ConstantParser(inp, p)
        var == FoundVariable(inp, p, ctx)
    IN  One({IF grouped.ok THEN grouped
             ELSE One({IF func.ok THEN func
                       ELSE IF const.ok THEN Parsed(const.pos, ConstConstant(const.out), <<>>)
                       ELSE IF var.ok THEN Parsed(var.pos, ConstVariable(var.out), var.errs)
                       ELSE NumberParser(inp, p) :
                       func \in {FunctionParser(inp, p, ctx)}}) :
             grouped \in {Grouping("constant_expr", inp, p, ctx)}})

\* constant_expr_operator(): the position after the operator and the
\* whitespace around it, or 0
ConstantExprOperator(inp, p) ==
    LET q == RegexOperator(inp, SkipWhitespace(inp, p))
    IN  IF q = 0 THEN 0 ELSE SkipWhitespace(inp, q)

\* the operator constant_expr_operator() matched from position p on
OperatorText(inp, p) ==
    Slice(inp, SkipWhitespace(inp, p), RegexOperator(inp, SkipWhitespace(inp, p)))

\* atom.then(op).then(atom) after the first atom a, with the output map
\* makes of the operator and the two terms; Fail if op or the second atom fails
ThenOperatorAtom(inp, a, ctx) ==
    LET op == ConstantExprOperator(inp, a.pos)
    IN  IF op = 0 THEN Fail
        ELSE One({IF b.ok
                  THEN Parsed(b.pos, ConstOperator(OperatorText(inp, a.pos), a.out, b.out),
                              a.errs \o b.errs)
                  ELSE Fail :
                  b \in {ConstantExprAtom(inp, op, ctx)}})

\* constant_expr(): recursive(|const_expr| choice((atom op atom, atom))),
\* padded; both alternatives begin with the same atom
ConstantExpr(inp, p, ctx) ==
    One({IF ~a.ok THEN Fail
         ELSE One({Padded(inp, IF operation.ok THEN operation ELSE a) :
                   operation \in {ThenOperatorAtom(inp, a, ctx)}}) :
         a \in {ConstantExprAtom(inp, SkipWhitespace(inp, p), ctx)}})

\* predicate()
PredicateParser(inp, p, ctx) ==
    LET pred == LiteralParser(inp, p)
    IN  IF ~pred.ok THEN Fail
        ELSE One({IF args.ok
                  THEN Parsed(args.pos, Predicate(pred.out, args.out), args.errs)
                  ELSE Fail :
                  args \in {ConstArgs(inp, pred.pos, ctx)}})

\* the operators of the two infix_op_set calls, in the order given, each
\* with the alternatives of its regex in order and the variant it builds
TierA == <<[signs |-> <<<<AndSign>>, <<"*">>, <<"&">>>>, into |-> "And"],
           [signs |-> <<<<OrSign>>, <<"+">>, <<"|">>>>, into |-> "Or"],
           [signs |-> <<<<XorSign>>, <<"!", OrSign>>, <<"!", "+">>, <<"!", "|">>>>,
            into |-> "Xor"]>>
TierB == <<[signs |-> <<<<ToSign>>, <<"-", ">">>>>, into |-> "Conditional"],
           [signs |-> <<<<IffSign>>, <<"<", "-", ">">>>>, into |-> "Biconditional"]>>

\* Expr::And(a, b) and the like
Binary(into, a, b) == [tag |-> into, left |-> a, right |-> b]

RECURSIVE AnyOp(_, _, _, _)
\* any_op: choice of the operators' regexes; the position after the match
AnyOp(inp, p, things, i) ==
    IF i > Len(things) THEN 0
    ELSE IF RegexAlt(inp, p, things[i].signs, 1) # 0
    THEN RegexAlt(inp, p, things[i].signs, 1)
    ELSE AnyOp(inp, p, things, i + 1)

NotAssociative ==
    "The operators in this expression are not associative; use parentheses to indicate order of operation"

\* the first atom of parser(): grouping, predicate, literal, contradiction,
\* tautology, padded
BaseAtom(inp, p, ctx) ==
    LET q == SkipWhitespace(inp, p)
        lit == LiteralParser(inp, q)
        bot == RegexAlt(inp, q, <<<<BotSign>>, <<"0">>>>, 1)
        top == RegexAlt(inp, q, <<<<TopSign>>, <<"1">>>>, 1)
    IN  One({IF grouped.ok THEN Padded(inp, grouped)
             ELSE One({Padded(inp,
                              IF pred.ok THEN pred
                              ELSE IF lit.ok THEN Parsed(lit.pos, Literal(lit.out), <<>>)
                              ELSE IF bot # 0 THEN Parsed(bot, Contradiction, <<>>)
                              ELSE IF top # 0 THEN Parsed(top, Tautology, <<>>)
                              ELSE Fail) :
                       pred \in {PredicateParser(inp, q, ctx)}}) :
             grouped \in {Grouping("expr", inp, q, ctx)}})

\* new_ctx.insert(v.name.clone(), v.clone())
Insert(ctx, v) ==
    [n \in DOMAIN ctx \cup {v.name} |-> IF n = v.name THEN v ELSE ctx[n]]

\* a quantifier that parses its body in the context it was given
QuantifierNoBinding(inp, p, ctx, signs, into) ==
    LET sym == RegexAlt(inp, p, signs, 1)
        v == NewVariable(inp, SkipWhitespace(inp, sym))
        after == SkipWhitespace(inp, v.pos)
    IN  IF sym = 0 \/ ~v.ok THEN Fail
        ELSE One({IF atom.ok
                  THEN Parsed(atom.pos, [tag |-> into, iter |-> v.out, expr |-> atom.out],
                              atom.errs)
                  ELSE One({IF outer.ok
                            THEN Parsed(outer.pos,
                                        [tag |-> into, iter |-> v.out, expr |-> outer.out],
                                        outer.errs)
                            ELSE Fail :
                            outer \in {Run("quantifier", inp, after, ctx)}}) :
                  atom \in {BaseAtom(inp, after, ctx)}})

\* quantifier(choice((atom, outer)), sym, map), for the signs sym
Quantifier(inp, p, ctx, signs, into) ==
    LET sym == RegexAlt(inp, p, signs, 1)
        v == NewVariable(inp, SkipWhitespace(inp, sym))
        new_ctx == Insert(ctx, v.out)
        after == SkipWhitespace(inp, v.pos)
    IN  IF sym = 0 \/ ~v.ok THEN Fail
        ELSE One({IF atom.ok
                  THEN Parsed(atom.pos, [tag |-> into, iter |-> v.out, expr |-> atom.out],
                              atom.errs)
                  ELSE One({IF outer.ok
                            THEN Parsed(outer.pos,
                                        [tag |-> into, iter |-> v.out, expr |-> outer.out],
                                        outer.errs)
                            ELSE Fail :
                            outer \in {Run("quantifier", inp, after, new_ctx)}}) :
                  atom \in {BaseAtom(inp, after, new_ctx)}})

\* recursive(|outer| choice((quantifier(..), quantifier(..), atom)).padded())
QuantifierAtom(inp, p, ctx) ==
    LET q == SkipWhitespace(inp, p)
    IN  One({IF forall.ok THEN Padded(inp, forall)
             ELSE One({IF exists.ok THEN Padded(inp, exists)
                       ELSE Padded(inp, BaseAtom(inp, q, ctx)) :
                       exists \in {Quantifier(inp, q, ctx, <<<<ExistsSign>>, <<"/">>>>,
                                              "Existential")}}) :
             forall \in {Quantifier(inp, q, ctx, <<<<ForallSign>>, <<"@">>>>,
                                    "Universal")}})

\* no special case for inequality
ThenNotEqualAtomAbsent(inp, a, ctx) == Fail

\* the first alternative of the atom below after its first term a:
\* .then_ignore(regex("!=|≠").padded()).then(constant_expr_atom(..))
ThenNotEqualAtom(inp, a, ctx) ==
    LET ne == RegexAlt(inp, SkipWhitespace(inp, a.pos), <<<<"!", "=">>, <<NeSign>>>>, 1)
    IN  IF ne = 0 THEN Fail
        ELSE One({IF b.ok
                  THEN Parsed(b.pos,
                              Not(ConstantValue(ConstOperator(<<"=">>, a.out, b.out))),
                              a.errs \o b.errs)
                  ELSE Fail :
                  b \in {ConstantExprAtom(inp, SkipWhitespace(inp, ne), ctx)}})

\* the atom "expression with only constants": a != b, else a op b, else
\* the atom above; the first two begin with the same term
ConstantAtom(inp, p, ctx) ==
    One({One({IF unequal.ok THEN unequal
              ELSE One({IF operation.ok
                        THEN Parsed(operation.pos, ConstantValue(operation.out),
                                    operation.errs)
                        ELSE QuantifierAtom(inp, p, ctx) :
                        operation \in {IF a.ok THEN ThenOperatorAtom(inp, a, ctx)
                                       ELSE Fail}}) :
              unequal \in {IF a.ok THEN ThenNotEqualAtom(inp, a, ctx) ELSE Fail}}) :
         a \in {ConstantExprAtom(inp, p, ctx)}})

\* the atom "not operator"
NotAtom(inp, p, ctx) ==
    LET n == RegexAlt(inp, p, <<<<NotSign>>, <<"~">>, <<"!">>>>, 1)
    IN  One({IF ~v.ok THEN Fail
             ELSE IF n # 0 THEN Parsed(v.pos, Not(v.out), v.errs)
             ELSE v :
             v \in {ConstantAtom(inp, IF n = 0 THEN p ELSE n, ctx)}})

\* both infix_op_set calls given the not-atom
OperandOneTier(inp, p, ctx, tier) == Run("not", inp, p, ctx)

\* the atom of each infix_op_set: the not-atom for and/or/xor, and/or/xor
\* for conditional/biconditional
Operand(inp, p, ctx, tier) ==
    IF tier = "A" THEN Run("not", inp, p, ctx) ELSE Run("and_or_xor", inp, p, ctx)

RECURSIVE ExtraUsages(_, _, _, _, _, _)
\* (any_op.to_span().then_ignore(atom.or_not())).padded().repeated().collect()
\* from position p: the spans of the extra operators
ExtraUsages(inp, p, ctx, tier, spans, errs) ==
    LET q == SkipWhitespace(inp, p)
        op == AnyOp(inp, q, IF tier = "A" THEN TierA ELSE TierB, 1)
    IN  IF op = 0 THEN Parsed(p, spans, errs)
        ELSE One({IF atom.ok
                  THEN ExtraUsages(inp, SkipWhitespace(inp, atom.pos), ctx, tier,
                                   Append(spans, SpanOf(q, op)), errs \o atom.errs)
                  ELSE ExtraUsages(inp, SkipWhitespace(inp, op), ctx, tier,
                                   Append(spans, SpanOf(q, op)), errs) :
                  atom \in {Operand(inp, op, ctx, tier)}})

\* a validate that associates to the left and drops the extra usages
ValidatedSilently(into, a, op_span, b, invalid_input) ==
    Parsed(invalid_input.pos, Binary(into, a.out, b.out),
           a.errs \o b.errs \o invalid_input.errs)

\* what validate makes of atom, operator, atom and the extra usages
Validated(into, a, op_span, b, invalid_input) ==
    IF invalid_input.out = <<>>
    THEN Parsed(b.pos, Binary(into, a.out, b.out), a.errs \o b.errs)
    ELSE Parsed(invalid_input.pos, Invalid,
                a.errs \o b.errs \o invalid_input.errs \o
                <<Custom(SpanUnion(op_span, invalid_input.out[Len(invalid_input.out)]),
                         NotAssociative)>>)

RECURSIVE InfixAlternatives(_, _, _, _, _)
\* the choice over the operators of infix_op_set, from the i-th on, after
\* the atom a that every alternative begins with
InfixAlternatives(inp, a, ctx, tier, i) ==
    LET things == IF tier = "A" THEN TierA ELSE TierB
        q == SkipWhitespace(inp, a.pos)
        op == RegexAlt(inp, q, things[i].signs, 1)
    IN  IF i > Len(things) THEN Fail
        ELSE IF op = 0 THEN InfixAlternatives(inp, a, ctx, tier, i + 1)
        ELSE One({IF ~b.ok THEN InfixAlternatives(inp, a, ctx, tier, i + 1)
                  ELSE One({Validated(things[i].into, a, SpanOf(q, op), b, invalid_input) :
                            invalid_input \in {ExtraUsages(inp, b.pos, ctx, tier, <<>>, <<>>)}}) :
                  b \in {Operand(inp, SkipWhitespace(inp, op), ctx, tier)}})

\* choice((infix_op_set(atom, things, Expr::Invalid), atom)).padded(): the
\* infix alternatives and the fallback begin with the same atom
Tier(inp, p, ctx, tier) ==
    One({IF ~a.ok THEN Fail
         ELSE One({Padded(inp, IF infix.ok THEN infix ELSE a) :
                   infix \in {InfixAlternatives(inp, a, ctx, tier, 1)}}) :
         a \in {Operand(inp, SkipWhitespace(inp, p), ctx, tier)}})

Run(k, inp, p, ctx) ==
    CASE k = "expr" -> Tier(inp, p, ctx, "B")
      [] k = "and_or_xor" -> Tier(inp, p, ctx, "A")
      [] k = "not" -> NotAtom(inp, p, ctx)
      [] k = "quantifier" -> QuantifierAtom(inp, p, ctx)
      [] k = "constant_expr" -> ConstantExpr(inp, p, ctx)

\* the error of a parse that fails or stops before the end of the input;
\* its span and expected patterns are left out
Unexpected == [msg |-> "unexpected input"]

\* HashMap::new(): no binding
EmptyContext == <<>>

\* parser(): recursive(|expr| ..)
ExprParser(inp, p, ctx) == Run("expr", inp, p, ctx)

\* parser.parse(input).into_output_errors()
Parse(inp) ==
    One({IF ~r.ok THEN [output |-> NoneExpr, errors |-> <<Unexpected>>]
         ELSE IF r.pos # Len(inp.text) + 1
         THEN [output |-> NoneExpr, errors |-> Append(r.errs, Unexpected)]
         ELSE [output |-> SomeExpr(r.out), errors |-> r.errs] :
         r \in {ExprParser(inp, 1, EmptyContext)}})

(***************************************************************************)
(* The texts parsed.  A text is given by its tokens, each the sequence of  *)
(* its characters, and by the token boundaries that hold a space: boundary *)
(* 0 is before the first token, boundary i after the i-th.                 *)
(***************************************************************************)
Tok(c) == <<c>>

\* the tokens, with one space at each boundary of sp
SourceText(toks, sp) ==
    LET RECURSIVE From(_)
        From(i) ==
            IF i > Len(toks) THEN <<>>
            ELSE toks[i] \o (IF i \in sp THEN <<" ">> ELSE <<>>) \o From(i + 1)
    IN  (IF 0 \in sp THEN <<" ">> ELSE <<>>) \o From(1)

\* Input<'a> = &'a str, with the strings nanoid will return
Input(toks, sp, is) == [text |-> SourceText(toks, sp), ids |-> is]

\* the spellings of the operators
Spellings(things) ==
    UNION {{things[i].signs[j] : j \in 1..Len(things[i].signs)} : i \in 1..Len(things)}
TierASpellings == Spellings(TierA)
TierBSpellings == Spellings(TierB)

\* the symbols of one or two operator characters tried between two terms
SymbolChars == {"=", "!", "&", "-", ">", "<", ",", "~", NeSign, "/"}
TermSymbols == {<<c>> : c \in SymbolChars} \cup {<<c, d>> : c \in SymbolChars, d \in SymbolChars}

\* the tokens written with a space on each side
SpacedTokens == TierASpellings \cup TierBSpellings \cup TermSymbols

\* the boundaries next to a binary operator or symbol
OperatorSpacing(toks) ==
    {i \in 1..(Len(toks) - 1) : toks[i] \in SpacedTokens \/ toks[i + 1] \in SpacedTokens}

\* the boundaries between two tokens that would read as one word without a
\* space: these always hold one
WordBoundaries(toks) ==
    {i \in 1..(Len(toks) - 1) :
        toks[i][Len(toks[i])] \in WordChars /\ toks[i + 1][1] \in WordChars}

Bracketed(open, ts, close) == <<Tok(open)>> \o ts \o <<Tok(close)>>
Applied(name, arg) == <<Tok(name), Tok("(")>> \o arg \o <<Tok(")")>>

FirstOperands == {<<Tok("A")>>, <<Tok("~"), Tok("A")>>}
\* the first and last operand of a chain
OuterOperands == {<<<<Tok("A")>>, <<Tok("C")>>>>,
                  <<<<Tok("~"), Tok("A")>>, Applied("P", <<Tok("a")>>)>>}

\* a OP b
Pairs ==
    {a \o <<o>> \o <<Tok("B")>> : a \in FirstOperands, o \in TierASpellings \cup TierBSpellings}
\* a OP1 b OP2 c
Chains ==
    {ac[1] \o <<o1>> \o <<Tok("B")>> \o <<o2>> \o ac[2] :
        ac \in OuterOperands,
        o1 \in TierASpellings \cup TierBSpellings,
        o2 \in TierASpellings \cup TierBSpellings}
\* (a OP1 b) OP2 c and a OP1 (b OP2 c)
BracketedChains ==
    UNION {{Bracketed(k[1], <<Tok("A"), o1, Tok("B")>>, k[2]) \o <<o2, Tok("C")>>,
            <<Tok("A"), o1>> \o Bracketed(k[1], <<Tok("B"), o2, Tok("C")>>, k[2])} :
        k \in {Brackets[1]},
        o1 \in TierASpellings \cup TierBSpellings,
        o2 \in TierASpellings \cup TierBSpellings}
\* a OP b TO c OP d
TwoSided ==
    {<<Tok("A"), o1, Tok("B"), t, Tok("C"), o2, Tok("P")>> :
        o1 \in TierASpellings, t \in TierBSpellings, o2 \in {Tok(OrSign), Tok("&")}}

\* quantifiers and variables
Px == Applied("P", <<Tok("x")>>)
Qx == Applied("Q", <<Tok("x")>>)
Qy == Applied("Q", <<Tok("y")>>)
Forall(v, body) == <<Tok("@"), Tok(v)>> \o body
Exists(v, body) == <<Tok("/"), Tok(v)>> \o body
Quantified ==
    {Px, Px \o <<Tok("&")>> \o Qy, Px \o <<<<"-", ">">>>> \o Qx,
     Applied("P", <<Tok("x"), Tok("="), Tok("y")>>),
     <<Tok("x"), Tok("="), Tok("y")>>,
     <<Tok("x"), <<"!", "=">>, Tok("y")>>,
     Forall("x", Px), Forall("x", Bracketed("(", Px, ")")),
     <<Tok(ForallSign), Tok("x")>> \o Bracketed("[", Px \o <<Tok("|")>> \o Qy, "]"),
     Forall("x", Bracketed("(", Px, ")")) \o <<Tok("&")>> \o Qx,
     Forall("x", Bracketed("(", Px, ")")) \o <<Tok(AndSign)>> \o Qx,
     Qx \o <<Tok("&")>> \o Forall("x", Px),
     Forall("x", Bracketed("(", Px, ")")) \o <<Tok("&")>> \o Forall("x", Bracketed("(", Qx, ")")),
     Forall("x", Bracketed("(", Px, ")")) \o <<Tok("|")>> \o Exists("y", Bracketed("(", Qy, ")")),
     Forall("x", Forall("x", Px)),
     Forall("x", Exists("x", Bracketed("(", Px, ")"))),
     Forall("x", Exists("y", Bracketed("(", Px \o <<Tok("&")>> \o Qy, ")"))),
     Forall("x", Bracketed("(", Exists("x", Bracketed("(", Px, ")")) \o <<Tok("&")>> \o Qx, ")")),
     Forall("x", Bracketed("(", Exists("y", Bracketed("(", Qy, ")")) \o <<Tok("&")>> \o Qy, ")")),
     Forall("x", Bracketed("(", <<Tok("x"), Tok("="), Tok("y")>>, ")")),
     Forall("x", Bracketed("(", <<Tok("x"), <<"!", "=">>, Tok("x")>>, ")")),
     <<Tok(ExistsSign), Tok("y")>> \o Bracketed("{", <<Tok("f"), Tok("("), Tok("y"), Tok(")"), Tok("="), Tok("a")>>, "}")}

\* two terms joined by a symbol
TermPairs == {<<<<Tok("a")>>, <<Tok("b")>>>>,
              <<<<Tok("1")>>, Bracketed("[", <<Tok("c"), Tok("+"), Tok("1")>>, "]")>>,
              <<<<Tok("f"), Tok("("), Tok("b"), Tok(")")>>, <<Tok("2")>>>>,
              <<Bracketed("(", <<Tok("a")>>, ")"), <<Tok("b")>>>>}
NotEqualSigns == {<<"!", "=">>, <<NeSign>>}
TermStatements ==
    {ab[1] \o <<s>> \o ab[2] : ab \in TermPairs, s \in TermSymbols \cup NotEqualSigns}
NegatedEqualities ==
    {<<Tok(n)>> \o Bracketed("(", ab[1] \o <<Tok("=")>> \o ab[2], ")") :
        n \in {NotSign, "~", "!"}, ab \in TermPairs}

\* the shape of the text of tests/test.rs
TestShaped ==
    {Bracketed("(", <<Tok("A"), o, Tok("B"), o, Tok("C")>>, ")") \o <<c>> \o
     Bracketed("(", <<q, Tok(v[1])>> \o Bracketed("(", Applied("P", <<Tok(v[2])>>), ")"), ")") :
        o \in {Tok("|"), Tok("&"), Tok(XorSign)}, c \in {Tok("&")},
        q \in {Tok(ForallSign), Tok("@")}, v \in {<<"x", "y">>, <<"y", "z">>}}

Texts ==
    Pairs \cup Chains \cup BracketedChains \cup TwoSided \cup Quantified
          \cup TermStatements \cup NegatedEqualities \cup TestShaped

\* the number of quantifiers of a text
QuantifierCount(toks) ==
    Cardinality({i \in 1..Len(toks) : toks[i] \in {Tok(ForallSign), Tok("@"), Tok(ExistsSign), Tok("/")}})

\* the strings nanoid can return
IdNames == <<"id1", "id2", "id3", "id4">>
IdSpace == {IdNames[i] : i \in 1..NumIds}

InitParse ==
    /\ pc = "input"
    /\ tokens \in Texts
    /\ spaces \in {WordBoundaries(tokens), WordBoundaries(tokens) \cup OperatorSpacing(tokens)}
    /\ ids \in [1..QuantifierCount(tokens) -> IdSpace]
    /\ parsed = Idle /\ respaced = Idle /\ reparsed = Idle
    /\ IdleEq /\ IdleDecompose /\ IdleList /\ IdleBranch /\ IdleValidate
    /\ IdleEditor /\ IdleCustom

\* parser.parse(input).into_output_errors()
ParseCall ==
    /\ pc = "input"
    /\ pc' = "done"
    /\ parsed' = Parse(Input(tokens, spaces, ids))
    /\ UNCHANGED <<tokens, spaces, ids, respaced, reparsed>>
    /\ UNCHANGED <<eqVars, decVars, listVars, branchVars, valVars, editorVars, customVars>>

\* the same tokens parsed again with a space added or removed at a boundary
ParseRespaced ==
    /\ pc = "done"
    /\ pc' = "compared"
    /\ \E i \in (0..Len(tokens)) \ WordBoundaries(tokens) :
          respaced' = IF i \in spaces THEN spaces \ {i} ELSE spaces \cup {i}
    /\ reparsed' = Parse(Input(tokens, respaced', ids))
    /\ UNCHANGED <<tokens, spaces, ids, parsed>>
    /\ UNCHANGED <<eqVars, decVars, listVars, branchVars, valVars, editorVars, customVars>>

NextParse == ParseCall \/ ParseRespaced

SpecParse == InitParse /\ [][NextParse]_vars

(***************************************************************************)
(* src/app/pages/editor.rs and src/app/components/editor/branch.rs: the    *)
(* editor.  A Uid is the number of the Uid::new() call that made it, so    *)
(* that every call returns a uid not seen before.  A BranchState is a      *)
(* record of the values of its signals; showing is the signal              *)
(* showing_branch_rule_selector of the Branch component that renders it.   *)
(***************************************************************************)
\* Option<Uid>::None
NoUid == 0

\* Uid::new(), the k-th call
NewUid(k) == k

\* BranchState::new(uid, parent), before any statement
NewBranchState(parent) ==
    [statements |-> <<>>, parent |-> parent, branch_rule |-> NoRule,
     sub |-> <<>>, showing |-> FALSE]

\* the rules the select of a branch is set to
SelectableRules == {"Or", "Conditional"}

\* s.get_index_of(id): the index from 1, or 0 for None
GetIndexOf(s, id) ==
    IF \E i \in DOMAIN s : s[i] = id THEN CHOOSE i \in DOMAIN s : s[i] = id ELSE 0

\* s.shift_insert(idx, uid, _) for a new key: idx counts from 0
ShiftInsert(s, idx, uid) ==
    SubSeq(s, 1, idx) \o <<uid>> \o SubSeq(s, idx + 1, Len(s))

\* s.shift_remove(uid)
ShiftRemove(s, uid) ==
    LET i == GetIndexOf(s, uid)
    IN  IF i = 0 THEN s ELSE SubSeq(s, 1, i - 1) \o SubSeq(s, i + 1, Len(s))

\* the statements of a branch after add_statement_with_uuid(ctx, uid, before)
AddStatementWithUuid(s, focus, uid, before) ==
    IF focus # NoUid /\ GetIndexOf(s, focus) # 0
    THEN LET idx == GetIndexOf(s, focus) - 1
         IN  ShiftInsert(s, IF ~before /\ idx < Len(s) THEN idx + 1 ELSE idx, uid)
    ELSE Append(s, uid)

CannotDelete == "Cannot delete last statement in branch"

\* max(0, i as isize - 1)
MaxZero(i) == IF i - 1 > 0 THEN i - 1 ELSE 0

\* a del_statement that also deletes the last statement left
DelStatementAny(s, uid) ==
    LET i == GetIndexOf(s, uid)
        left == ShiftRemove(s, uid)
    IN  [statements |-> left,
         result |-> IF i # 0
                    THEN [ok |-> TRUE,
                          focus |-> IF MaxZero(i - 1) + 1 <= Len(left)
                                    THEN left[MaxZero(i - 1) + 1] ELSE NoUid]
                    ELSE [ok |-> TRUE, focus |-> NoUid]]

\* a del_statement that returns the first statement left
DelStatementFirst(s, uid) ==
    IF Len(s) > 1
    THEN LET i == GetIndexOf(s, uid)
             left == ShiftRemove(s, uid)
         IN  [statements |-> left,
              result |-> IF i # 0
                         THEN [ok |-> TRUE, focus |-> left[1]]
                         ELSE [ok |-> TRUE, focus |-> NoUid]]
    ELSE [statements |-> s, result |-> [ok |-> FALSE, err |-> CannotDelete]]

\* del_statement(uid) on the statements s: the statements left and the
\* value returned
DelStatement(s, uid) ==
    IF Len(s) > 1
    THEN LET i == GetIndexOf(s, uid)
             left == ShiftRemove(s, uid)
         IN  [statements |-> left,
              result |-> IF i # 0
                         THEN [ok |-> TRUE,
                               focus |-> IF MaxZero(i - 1) + 1 <= Len(left)
                                         THEN left[MaxZero(i - 1) + 1] ELSE NoUid]
                         ELSE [ok |-> TRUE, focus |-> NoUid]]
    ELSE [statements |-> s, result |-> [ok |-> FALSE, err |-> CannotDelete]]

\* no del_statement call in the last event
NoDeletion == [called |-> FALSE]

RECURSIVE Rendered(_, _)
\* the branches under branch b that a Branch component renders: b and the
\* sub-branches of every rendered branch
Rendered(states, b) ==
    {b} \cup UNION {Rendered(states, states[b].sub[i]) : i \in DOMAIN states[b].sub}

\* ctx.root_branch: the first uid made
RootBranch == NewUid(1)

\* provide_context in Editor: the root branch with one statement
InitEditor ==
    /\ pc = "editor"
    /\ editor_branches = <<RootBranch>>
    /\ editor_statements = {NewUid(2)}
    /\ focused_branch = RootBranch
    /\ focused_statement = NoUid
    /\ branch_states = [b \in {RootBranch} |->
            [NewBranchState(NoUid) EXCEPT !.statements = <<NewUid(2)>>]]
    /\ uid_count = 2
    /\ deleted = NoDeletion
    /\ IdleEq /\ IdleDecompose /\ IdleList /\ IdleBranch /\ IdleValidate /\ IdleParse
    /\ IdleCustom

\* on_focus of a statement editor: on_focus_branch, then on_focus_statement
Focus ==
    /\ pc = "editor"
    /\ \E b \in Rendered(branch_states, RootBranch) :
          \E i \in DOMAIN branch_states[b].statements :
              /\ focused_branch' = b
              /\ focused_statement' = branch_states[b].statements[i]
    /\ deleted' = NoDeletion
    /\ UNCHANGED <<pc, editor_branches, editor_statements, branch_states, uid_count>>
    /\ UNCHANGED <<eqVars, decVars, listVars, branchVars, valVars, parseVars, customVars>>

\* branches.get(focused_branch_uid).unwrap() fails
Panic ==
    /\ pc' = "panicked"
    /\ deleted' = NoDeletion
    /\ UNCHANGED <<editor_branches, editor_statements, focused_branch, focused_statement,
                   branch_states, uid_count>>
    /\ UNCHANGED <<eqVars, decVars, listVars, branchVars, valVars, parseVars, customVars>>

\* handle_toolbar_event(ToolbarEvent::AddStatement { before }, ctx)
AddStatement ==
    /\ pc = "editor"
    /\ uid_count < MaxUids
    /\ IF GetIndexOf(editor_branches, focused_branch) = 0 THEN Panic
       ELSE /\ Cardinality(editor_statements) - Cardinality(DOMAIN branch_states) < MaxAdded
            /\ \E before \in BOOLEAN :
                  branch_states' = [branch_states EXCEPT ![focused_branch].statements =
                      AddStatementWithUuid(@, focused_statement, NewUid(uid_count + 1), before)]
            /\ uid_count' = uid_count + 1
            /\ editor_statements' = editor_statements \cup {NewUid(uid_count + 1)}
            /\ focused_statement' = NewUid(uid_count + 1)
            /\ deleted' = NoDeletion
            /\ UNCHANGED <<pc, editor_branches, focused_branch>>
            /\ UNCHANGED <<eqVars, decVars, listVars, branchVars, valVars, parseVars, customVars>>

\* handle_toolbar_event(ToolbarEvent::DeleteStatement, ctx)
DeleteStatement ==
    /\ pc = "editor"
    /\ IF GetIndexOf(editor_branches, focused_branch) = 0 THEN Panic
       ELSE /\ IF focused_statement # NoUid
               THEN LET s == branch_states[focused_branch].statements
                        new_focus == DelStatement(s, focused_statement)
                    IN  /\ branch_states' = [branch_states EXCEPT
                               ![focused_branch].statements = new_focus.statements]
                        /\ focused_statement' = IF new_focus.result.ok
                                                THEN new_focus.result.focus
                                                ELSE focused_statement
                        /\ deleted' = [called |-> TRUE, branch |-> focused_branch,
                                       uid |-> focused_statement, before |-> s,
                                       result |-> new_focus.result]
               ELSE /\ deleted' = NoDeletion
                    /\ UNCHANGED <<branch_states, focused_statement>>
            /\ UNCHANGED <<pc, editor_branches, editor_statements, focused_branch, uid_count>>
            /\ UNCHANGED <<eqVars, decVars, listVars, branchVars, valVars, parseVars, customVars>>

\* a ctrl+b hotkey that acts in every branch while some statement is focused
SomeStatementFocused(b) ==
    /\ focused_statement # NoUid
    /\ branch_states[b].statements # <<>>

\* the branch whose last statement is focused: the one Branch component
\* whose ctrl+b hotkey acts
LastStatementFocused(b) ==
    /\ focused_statement # NoUid
    /\ branch_states[b].statements # <<>>
    /\ focused_statement = branch_states[b].statements[Len(branch_states[b].statements)]

\* make_thing() for the parent b, as the k-th and (k+1)-th Uid::new() call:
\* the branches registered afterwards
OnNewBranch(branches, b, k) ==
    ShiftInsert(branches, GetIndexOf(branches, b) - 1, NewUid(k))

\* the ctrl+b hotkey of the Branch component of b and the effect watching
\* showing_branch_rule_selector: two new sub-branches
OpenSelector(b) ==
    LET one == NewUid(uid_count + 1)
        two == NewUid(uid_count + 3)
        made == [u \in {one, two} |->
                    [NewBranchState(b) EXCEPT !.statements =
                        AddStatementWithUuid(<<>>, focused_statement, NewUid(u + 1), FALSE)]]
    IN  /\ uid_count + 4 <= MaxUids
        /\ IF GetIndexOf(editor_branches, b) = 0 THEN Panic
           ELSE /\ editor_branches' =
                      OnNewBranch(OnNewBranch(editor_branches, b, uid_count + 1), b,
                                  uid_count + 3)
                /\ editor_statements' = editor_statements \cup {NewUid(one + 1), NewUid(two + 1)}
                /\ branch_states' =
                      [u \in DOMAIN branch_states \cup {one, two} |->
                          IF u \in {one, two} THEN made[u]
                          ELSE IF u = b
                          THEN [branch_states[b] EXCEPT !.showing = TRUE, !.sub = <<one, two>>]
                          ELSE branch_states[u]]
                /\ uid_count' = uid_count + 4
                /\ deleted' = NoDeletion
                /\ UNCHANGED <<pc, focused_branch, focused_statement>>
                /\ UNCHANGED <<eqVars, decVars, listVars, branchVars, valVars, parseVars,
                               customVars>>

\* on_delete_branch for each of the two sub-branches taken out of sub
OnDeleteBranches(branches, taken) ==
    IF taken = <<>> THEN branches
    ELSE ShiftRemove(ShiftRemove(branches, taken[1]), taken[2])

\* the ctrl+b hotkey of the Branch component of b and the effect watching
\* showing_branch_rule_selector: the sub-branches are taken away
CloseSelector(b) ==
    /\ editor_branches' = OnDeleteBranches(editor_branches, branch_states[b].sub)
    /\ branch_states' = [branch_states EXCEPT ![b].showing = FALSE,
                                               ![b].branch_rule = NoRule,
                                               ![b].sub = <<>>]
    /\ deleted' = NoDeletion
    /\ UNCHANGED <<pc, editor_statements, focused_branch, focused_statement, uid_count>>
    /\ UNCHANGED <<eqVars, decVars, listVars, branchVars, valVars, parseVars, customVars>>

\* ctrl+b
ToggleSelector ==
    /\ pc = "editor"
    /\ \E b \in Rendered(branch_states, RootBranch) :
          /\ LastStatementFocused(b)
          /\ IF branch_states[b].showing THEN CloseSelector(b) ELSE OpenSelector(b)

\* on:change of the select of a branch that shows its rule selector
SelectRule ==
    /\ pc = "editor"
    /\ \E b \in Rendered(branch_states, RootBranch), r \in SelectableRules \cup {NoRule} :
          /\ branch_states[b].showing
          /\ branch_states[b].branch_rule # r
          /\ branch_states' = [branch_states EXCEPT ![b].branch_rule = r]
    /\ deleted' = NoDeletion
    /\ UNCHANGED <<pc, editor_branches, editor_statements, focused_branch, focused_statement,
                   uid_count>>
    /\ UNCHANGED <<eqVars, decVars, listVars, branchVars, valVars, parseVars, customVars>>

NextEditor == Focus \/ AddStatement \/ DeleteStatement \/ ToggleSelector \/ SelectRule

SpecEditor == InitEditor /\ [][NextEditor]_vars

(***************************************************************************)
(* grammar/src/error.rs: YggError::custom.  A span is the Range<O> it      *)
(* converts to, [start, end]; O is usize.                                  *)
(***************************************************************************)
\* Option<O>
NoOffset == [none |-> TRUE]
SomeOffset(o) == [some |-> o]

\* min(a, b) of std::cmp
Min(a, b) == IF a <= b THEN a ELSE b

\* O::default() for usize
DefaultOffset == 0

\* Option::unwrap_or_default
UnwrapOrDefault(o) == IF "some" \in DOMAIN o THEN o.some ELSE DefaultOffset

RECURSIVE FoldStart(_, _, _)
\* spans.iter().fold(None, ..) for start, from item i on with accumulator a
FoldStart(spans, i, a) ==
    IF i > Len(spans) THEN a
    ELSE FoldStart(spans, i + 1,
                   IF "none" \in DOMAIN a THEN SomeOffset(spans[i].start)
                   ELSE SomeOffset(Min(a.some, spans[i].start)))

RECURSIVE FoldEnd(_, _, _)
\* spans.iter().fold(None, ..) for end, from item i on with accumulator a
FoldEnd(spans, i, a) ==
    IF i > Len(spans) THEN a
    ELSE FoldEnd(spans, i + 1,
                 IF "none" \in DOMAIN a THEN SomeOffset(spans[i].end)
                 ELSE SomeOffset(Min(a.some, spans[i].end)))

\* YggError::custom(spans, msg): the spans, start and end of the error
YggErrorCustom(spans) ==
    [spans |-> spans,
     start |-> UnwrapOrDefault(FoldStart(spans, 1, NoOffset)),
     end |-> UnwrapOrDefault(FoldEnd(spans, 1, NoOffset))]

\* the spans given: start <= end, as SimpleSpan of a piece of input
SpanValues ==
    {v \in [start : 0..MaxOffset, end : 0..MaxOffset] : v.start <= v.end}

InitCustom ==
    /\ pc = "input"
    /\ error_spans \in SeqsUpTo(SpanValues, MaxSpans)
    /\ custom = Idle
    /\ IdleEq /\ IdleDecompose /\ IdleList /\ IdleBranch /\ IdleValidate /\ IdleParse
    /\ IdleEditor

\* YggError::custom(error_spans, msg)
CustomCall ==
    /\ pc = "input"
    /\ pc' = "done"
    /\ custom' = YggErrorCustom(error_spans)
    /\ UNCHANGED <<error_spans, eqVars, decVars, listVars, branchVars, valVars, parseVars,
                   editorVars>>

NextCustom == CustomCall

SpecCustom == InitCustom /\ [][NextCustom]_vars

(***************************************************************************)
(* Vocabulary of the properties, defined apart from the operators above.   *)
(***************************************************************************)
RECURSIVE Unbracket(_)
\* the formula under its outermost bracket pairs
Unbracket(e) ==
    IF e.tag \in GroupTags THEN Unbracket(e.expr) ELSE e

\* structural equality: the same formula once every bracket pair is erased
StructEq(a, b) == StripGroups(a) = StripGroups(b)

\* the formula has the shape rule r requires
HasShape(r, e) ==
    LET t == Unbracket(e)
    IN  CASE r = "Or" -> t.tag = "Or"
          [] r = "Conditional" -> t.tag = "Conditional"
          [] r = "Biconditional" -> t.tag = "Biconditional"
          [] r = "Nand" -> t.tag = "Not" /\ Unbracket(t.expr).tag = "And"
          [] r = "NotBiconditional" -> t.tag = "Not" /\ Unbracket(t.expr).tag = "Biconditional"

\* the binary node of a formula that has the shape of rule r
ShapeBody(r, e) ==
    IF r \in {"Nand", "NotBiconditional"} THEN Unbracket(Unbracket(e).expr) ELSE Unbracket(e)

\* the table of section 4.3 for operands p and q
RuleTable(r, p, q) ==
    CASE r = "Or" -> <<{p}, {q}>>
      [] r = "Nand" -> <<{p}, {q}>>
      [] r = "Conditional" -> <<{Not(p)}, {q}>>
      [] r = "Biconditional" -> <<{p, q}, {Not(p), Not(q)}>>
      [] r = "NotBiconditional" -> <<{p, Not(q)}, {Not(p), q}>>

\* S holds the formulas of T, each structurally distinct one once
IsSetOf(S, T) ==
    /\ S \subseteq T
    /\ \A t \in T : \E x \in S : StructEq(x, t)
    /\ \A x \in S, y \in S : StructEq(x, y) => x = y

\* C1: for Or, Conditional, Biconditional and NotBiconditional, a formula of
\* the rule's shape decomposes to Ok with exactly the two sets of the table,
\* p and q being the simplified left and right operands.
C1_DecomposeTable ==
    (pc = "done" /\ rule \in BranchRule \ {"Nand"} /\ HasShape(rule, expr)) =>
        LET b == ShapeBody(rule, expr)
            t == RuleTable(rule, Unbracket(b.left), Unbracket(b.right))
        IN  /\ decomposed.ok
            /\ IsSetOf(decomposed.one, t[1])
            /\ IsSetOf(decomposed.two, t[2])

C1_Witness ==
    /\ pc = "done" /\ rule = "Conditional"
    /\ expr.tag \in GroupTags
    /\ HasShape(rule, expr)
    /\ ShapeBody(rule, expr).left.tag \in GroupTags
    /\ decomposed.ok
    /\ \E x \in decomposed.one : x.tag = "Not"

RECURSIVE Eval(_, _)
\* truth value of a propositional formula under valuation v of the literals
Eval(e, v) ==
    CASE e.tag = "Literal" -> v[e.lit]
      [] e.tag = "Tautology" -> TRUE
      [] e.tag = "Contradiction" -> FALSE
      [] e.tag \in GroupTags -> Eval(e.expr, v)
      [] e.tag = "Not" -> ~Eval(e.expr, v)
      [] e.tag = "And" -> Eval(e.left, v) /\ Eval(e.right, v)
      [] e.tag = "Or" -> Eval(e.left, v) \/ Eval(e.right, v)
      [] e.tag = "Xor" -> Eval(e.left, v) # Eval(e.right, v)
      [] e.tag = "Conditional" -> Eval(e.left, v) => Eval(e.right, v)
      [] e.tag = "Biconditional" -> Eval(e.left, v) = Eval(e.right, v)

\* C2: for each of the five rules and a formula of its shape over atoms p
\* and q, under every valuation the formula is true iff all formulas of
\* branch 1 are true or all formulas of branch 2 are true.
C2_TableauSound ==
    (/\ pc = "done" /\ HasShape(rule, expr)
     /\ Unbracket(ShapeBody(rule, expr).left).tag = "Literal"
     /\ Unbracket(ShapeBody(rule, expr).right).tag = "Literal") =>
        /\ decomposed.ok
        /\ \A v \in [LitNames -> BOOLEAN] :
              Eval(expr, v) <=> \/ \A f \in decomposed.one : Eval(f, v)
                                \/ \A f \in decomposed.two : Eval(f, v)

C5_GroupTransparent ==
    (pc = "done" /\ StructEq(lhs, rhs)) =>
        eq_result = TRUE /\ hash_lhs = hash_rhs

C5_Witness ==
    /\ pc = "done"
    /\ lhs.tag = "Predicate" /\ lhs.args[1].tag \in GroupTags
    /\ rhs.tag \in GroupTags /\ Unbracket(rhs).args[2].tag \in GroupTags
    /\ eq_result = TRUE /\ hash_lhs = hash_rhs

\* membership in the required set by structural equality
Member(S, e) == \E x \in S : StructEq(x, e)

\* C6: expr_list_starts_with returns true iff the list has at least |set|
\* items and each of the first |set| is a member of the set; it examines
\* no item after the first |set| nor after a non-member, and an empty set
\* gives true for every list.
C6_ListStartsWith ==
    (pc = "done" /\ fn = "expr_list_starts_with") =>
        LET n == Cardinality(set)
            xs == Exprs(list)
        IN  /\ starts_with.result =
                  (Len(xs) >= n /\ \A i \in 1..n : Member(set, xs[i]))
            /\ \A i \in starts_with.examined :
                  i <= n /\ \A j \in 1..(i - 1) : Member(set, xs[j])
            /\ (\E i \in 1..Len(xs) : i <= n /\ ~Member(set, xs[i]))
                  => ~starts_with.result
            /\ n = 0 => starts_with.result /\ starts_with.examined = {}

C6_Witness ==
    /\ pc = "done" /\ fn = "expr_list_starts_with"
    /\ Cardinality(set) = 2 /\ Len(list) = 3
    /\ ~Member(set, list[3].some)
    /\ list[1].some.tag \in GroupTags
    /\ starts_with.result /\ starts_with.examined = {1, 2}

\* C7: when expr_list_starts_with returns true, every formula of the
\* required set occurs among the first |set| items of the list.
C7_ListCoversSet ==
    (pc = "done" /\ fn = "expr_list_starts_with" /\ starts_with.result) =>
        \A x \in set : \E i \in 1..Cardinality(set) : StructEq(list[i].some, x)

C9_NoneFails ==
    (/\ pc = "done" /\ fn = "expr_maybe_list_starts_with"
     /\ \E i \in 1..Len(list) : i <= Cardinality(set) /\ ~IsSome(list[i])) =>
        ~starts_with.result

C9_Witness ==
    /\ pc = "done" /\ fn = "expr_maybe_list_starts_with"
    /\ Cardinality(set) = 2 /\ Len(list) = 3
    /\ list[1] = NoneExpr
    /\ IsSome(list[2]) /\ IsSome(list[3])
    /\ Member(set, list[2].some) /\ Member(set, list[3].some)
    /\ ~StructEq(list[2].some, list[3].some)
    /\ ~starts_with.result

\* what the claims about a branch take as given: a rule is selected, there
\* are two sub-branches and the root statement is parsed
BranchChecked ==
    /\ branch_rule \in BranchRule
    /\ "some" \in DOMAIN sub
    /\ Len(statements) > 0
    /\ IsSome(statements[Len(statements)])

\* the decomposition of the root (last) statement by the selected rule
RootDecomposition ==
    Decompose(branch_rule, Unbracket(statements[Len(statements)].some))

\* sub-branch i starts with the required set c
SubStartsWith(i, c) == ExprMaybeListStartsWith(sub.some[i].statements, c).result

\* C10: for a branch with a selected rule, a parsed root (last) statement
\* whose decomposition succeeds with required sets (c1, c2), and two
\* sub-branches s1 and s2, the branch reports no error iff (s1 starts with c1
\* and s2 starts with c2) or (s1 starts with c2 and s2 starts with c1); two
\* sub-branches that both start with one and the same required set, and not
\* with the other, are not accepted.
C10_NoErrorIffBothCorrect ==
    (BranchChecked /\ RootDecomposition.ok) =>
        LET c1 == RootDecomposition.one
            c2 == RootDecomposition.two
        IN  /\ (current_error = NoError) <=>
                  \/ SubStartsWith(1, c1) /\ SubStartsWith(2, c2)
                  \/ SubStartsWith(1, c2) /\ SubStartsWith(2, c1)
            /\ \A c \in {c1, c2} : \A d \in {c1, c2} \ {c} :
                  (/\ SubStartsWith(1, c) /\ SubStartsWith(2, c)
                   /\ ~SubStartsWith(1, d) /\ ~SubStartsWith(2, d))
                  => current_error # NoError

\* a branch accepted with its sub-branches in the order opposite to the
\* required sets
C10_Witness ==
    /\ BranchChecked /\ RootDecomposition.ok
    /\ current_error = NoError
    /\ SubStartsWith(1, RootDecomposition.two)
    /\ SubStartsWith(2, RootDecomposition.one)
    /\ ~SubStartsWith(1, RootDecomposition.one)

\* a branch whose sub-branches both start with the first required set only
C10_WitnessSameSet ==
    /\ BranchChecked /\ RootDecomposition.ok
    /\ SubStartsWith(1, RootDecomposition.one)
    /\ SubStartsWith(2, RootDecomposition.one)
    /\ ~SubStartsWith(1, RootDecomposition.two)
    /\ ~SubStartsWith(2, RootDecomposition.two)
    /\ current_error # NoError

\* sub-branch i starts with one of the two required sets
SubCorrect(i) ==
    \/ SubStartsWith(i, RootDecomposition.one)
    \/ SubStartsWith(i, RootDecomposition.two)

\* C11: in the same situation, when exactly one of the two sub-branches
\* starts with one of the required sets the error is SubBranch(uid) with uid
\* the uid of the other sub-branch, and when neither starts with either
\* required set the error is SubBranches.
C11_WrongSubBranchNamed ==
    (BranchChecked /\ RootDecomposition.ok) =>
        /\ (SubCorrect(1) /\ ~SubCorrect(2))
              => current_error = [err |-> "SubBranch", uid |-> sub.some[2].uid]
        /\ (SubCorrect(2) /\ ~SubCorrect(1))
              => current_error = [err |-> "SubBranch", uid |-> sub.some[1].uid]
        /\ (~SubCorrect(1) /\ ~SubCorrect(2))
              => current_error = [err |-> "SubBranches"]

\* only the second sub-branch starts with a required set, and it is one of
\* two formulas
C11_Witness ==
    /\ BranchChecked /\ RootDecomposition.ok
    /\ Cardinality(RootDecomposition.two) = 2
    /\ SubStartsWith(2, RootDecomposition.two)
    /\ ~SubCorrect(1)
    /\ Len(sub.some[1].statements) > 0
    /\ current_error = [err |-> "SubBranch", uid |-> "s1"]

RECURSIVE HasGeneric(_)
\* a Generic node occurs in the (bracket-free) formula
HasGeneric(e) ==
    CASE e.tag = "Generic" -> TRUE
      [] e.tag \in {"Not"} \cup QuantifierTags -> HasGeneric(e.expr)
      [] e.tag \in BinaryTags \cup {"UnknownOperator"} ->
            HasGeneric(e.left) \/ HasGeneric(e.right)
      [] e.tag \in {"Function", "Predicate"} ->
            \E i \in 1..Len(e.args) : HasGeneric(e.args[i])
      [] OTHER -> FALSE

RECURSIVE FreeVariables(_)
\* the variables with an occurrence outside the body of every quantifier
\* that binds them, in a bracket-free formula
FreeVariables(e) ==
    CASE e.tag = "Variable" -> {e.var}
      [] e.tag = "Not" -> FreeVariables(e.expr)
      [] e.tag \in QuantifierTags -> FreeVariables(e.expr) \ {e.iter}
      [] e.tag \in BinaryTags \cup {"UnknownOperator"} ->
            FreeVariables(e.left) \cup FreeVariables(e.right)
      [] e.tag \in {"Function", "Predicate"} ->
            UNION {FreeVariables(e.args[i]) : i \in 1..Len(e.args)}
      [] OTHER -> {}

\* C12: validate_syntax(f) returns Ok(()) iff the simplified f contains no
\* Generic node and every Variable occurrence lies inside the body of an
\* enclosing quantifier that binds it; a binder's scope is its own body only,
\* and a formula without Variable and Generic nodes is always valid.
C12_ValidateSyntax ==
    (pc = "done") =>
        LET f == StripGroups(formula)
        IN  /\ validation.ok <=> (~HasGeneric(f) /\ FreeVariables(f) = {})
            /\ (f.tag \in BinaryTags /\ f.left.tag \in QuantifierTags
                /\ f.left.iter \in FreeVariables(f.right)) => ~validation.ok

\* a variable bound in the left operand and used in the right one
C12_Witness ==
    /\ pc = "done"
    /\ formula.tag = "And"
    /\ formula.left.tag = "Existential" /\ formula.left.iter = "x"
    /\ ValidateSyntax(formula.left).ok
    /\ Simplify(formula.right) = Variable("x")
    /\ validation = [ok |-> FALSE, err |-> "InvalidVariable", var |-> "x"]

(***************************************************************************)
(* Vocabulary of the properties of the parser.                             *)
(***************************************************************************)
\* the connective a spelling stands for (section 5.2 of the specification)
Connective(sign) ==
    CASE sign \in {<<AndSign>>, <<"*">>, <<"&">>} -> "And"
      [] sign \in {<<OrSign>>, <<"+">>, <<"|">>} -> "Or"
      [] sign \in {<<XorSign>>, <<"!", OrSign>>, <<"!", "+">>, <<"!", "|">>} -> "Xor"
      [] sign \in {<<ToSign>>, <<"-", ">">>} -> "Conditional"
      [] sign \in {<<IffSign>>, <<"<", "-", ">">>} -> "Biconditional"

\* both spellings are of And, Or, Xor, or both of Conditional, Biconditional
SameTier(o1, o2) ==
    (Connective(o1) \in {"And", "Or", "Xor"}) = (Connective(o2) \in {"And", "Or", "Xor"})

\* the formula an operand of the texts stands for
OperandExpr(toks) ==
    CASE toks = <<Tok("A")>> -> Literal(<<"A">>)
      [] toks = <<Tok("B")>> -> Literal(<<"B">>)
      [] toks = <<Tok("C")>> -> Literal(<<"C">>)
      [] toks = <<Tok("P")>> -> Literal(<<"P">>)
      [] toks = <<Tok("~"), Tok("A")>> -> Not(Literal(<<"A">>))
      [] toks = Applied("P", <<Tok("a")>>) -> Predicate(<<"P">>, <<ConstConstant(<<"a">>)>>)

\* the result carries an error with this message
HasError(result, msg) ==
    \E i \in DOMAIN result.errors : result.errors[i].msg = msg

\* the result is the formula e and no error
ParsedTo(result, e) == result = [output |-> SomeExpr(e), errors |-> <<>>]

IsTierA(o) == Connective(o) \in {"And", "Or", "Xor"}

\* C14: And, Or, Xor bind tighter than Conditional, Biconditional:
\* a OP b TO c parses to TO(OP(a, b), c) and a TO b OP c to TO(a, OP(b, c)),
\* and one And/Or/Xor operator on each side of a single Conditional or
\* Biconditional operator parses without error.
C14_Precedence ==
    pc \in {"done", "compared"} =>
        \A o1 \in TierASpellings, t \in TierBSpellings :
            /\ \A ac \in OuterOperands :
                  /\ tokens = ac[1] \o <<o1, Tok("B"), t>> \o ac[2] =>
                        ParsedTo(parsed, Binary(Connective(t),
                                                Binary(Connective(o1), OperandExpr(ac[1]),
                                                       Literal(<<"B">>)),
                                                OperandExpr(ac[2])))
                  /\ tokens = ac[1] \o <<t, Tok("B"), o1>> \o ac[2] =>
                        ParsedTo(parsed, Binary(Connective(t), OperandExpr(ac[1]),
                                                Binary(Connective(o1), Literal(<<"B">>),
                                                       OperandExpr(ac[2]))))
            /\ \A o2 \in TierASpellings :
                  tokens = <<Tok("A"), o1, Tok("B"), t, Tok("C"), o2, Tok("P")>> =>
                      ParsedTo(parsed, Binary(Connective(t),
                                              Binary(Connective(o1), Literal(<<"A">>),
                                                     Literal(<<"B">>)),
                                              Binary(Connective(o2), Literal(<<"C">>),
                                                     Literal(<<"P">>))))

\* A and B to C, written with the signs of the specification
C14_Witness ==
    /\ pc = "done"
    /\ tokens = <<Tok("A"), Tok(AndSign), Tok("B"), Tok(ToSign), Tok("C")>>
    /\ parsed.output = SomeExpr(Binary("Conditional",
                                       And(Literal(<<"A">>), Literal(<<"B">>)),
                                       Literal(<<"C">>)))
    /\ parsed.errors = <<>>

\* A | B <-> C & P
C14_WitnessTwoSided ==
    /\ pc = "done"
    /\ tokens = <<Tok("A"), Tok("|"), Tok("B"), <<"<", "-", ">">>, Tok("C"), Tok("&"), Tok("P")>>
    /\ parsed = [output |-> SomeExpr(Binary("Biconditional",
                                            Or(Literal(<<"A">>), Literal(<<"B">>)),
                                            And(Literal(<<"C">>), Literal(<<"P">>)))),
                 errors |-> <<>>]

\* the binders in scope once the binder v is entered: v hides a binder of
\* the same name
Enter(scope, v) == {w \in scope : w.name # v.name} \cup {v}

\* what an occurrence named n stands for in a scope
Resolve(scope, n) ==
    IF \E w \in scope : w.name = n
    THEN CHOOSE w \in scope : w.name = n
    ELSE ParsedVariable(n, InvalidId)

RECURSIVE TermResolved(_, _)
\* every variable of the term is the one its name stands for in the scope
TermResolved(c, scope) ==
    CASE c.ctag = "Variable" -> c.var = Resolve(scope, c.var.name)
      [] c.ctag = "Function" -> \A i \in DOMAIN c.args : TermResolved(c.args[i], scope)
      [] c.ctag = "Operator" -> TermResolved(c.left, scope) /\ TermResolved(c.right, scope)
      [] OTHER -> TRUE

RECURSIVE Resolved(_, _)
\* every variable of the formula is the one its name stands for where it
\* occurs: a quantifier's binder is in scope in its body and nowhere else
Resolved(e, scope) ==
    CASE e.tag \in QuantifierTags -> Resolved(e.expr, Enter(scope, e.iter))
      [] e.tag = "Predicate" -> \A i \in DOMAIN e.args : TermResolved(e.args[i], scope)
      [] e.tag = "ConstantValue" -> TermResolved(e.value, scope)
      [] e.tag = "Not" -> Resolved(e.expr, scope)
      [] e.tag \in BinaryTags -> Resolved(e.left, scope) /\ Resolved(e.right, scope)
      [] OTHER -> TRUE

UnknownVariable == "This variable does not exist"

\* C15: a variable occurrence in a quantifier's body resolves to that
\* quantifier's binder, to the innermost one when quantifiers of the same
\* name are nested, and the binder is out of scope after the body: the x of
\* Q(x) in "forall x (P(x)) and Q(x)" resolves to no binder and is reported.
C15_Scope ==
    pc \in {"done", "compared"} =>
        /\ IsSome(parsed.output) => Resolved(parsed.output.some, {})
        /\ \A o \in {Tok("&"), Tok(AndSign)} :
              tokens = Forall("x", Bracketed("(", Px, ")")) \o <<o>> \o Qx =>
                  /\ HasError(parsed, UnknownVariable)
                  /\ IsSome(parsed.output)
                  /\ parsed.output.some.tag = "And"
                  /\ parsed.output.some.left.expr =
                        Predicate(<<"P">>, <<ConstVariable(parsed.output.some.left.iter)>>)
                  /\ parsed.output.some.right =
                        Predicate(<<"Q">>, <<ConstVariable(ParsedVariable(<<"x">>, InvalidId))>>)

\* in @x((/x(P(x))) & Q(x)) the x of P is the inner binder and the x of Q
\* the outer one
C15_Witness ==
    /\ pc = "done"
    /\ tokens = Forall("x", Bracketed("(", Exists("x", Bracketed("(", Px, ")"))
                                             \o <<Tok("&")>> \o Qx, ")"))
    /\ ids[1] # ids[2]
    /\ parsed.errors = <<>>
    /\ parsed.output.some.iter = ParsedVariable(<<"x">>, ids[1])
    /\ parsed.output.some.expr.left.iter = ParsedVariable(<<"x">>, ids[2])
    /\ parsed.output.some.expr.left.expr =
          Predicate(<<"P">>, <<ConstVariable(ParsedVariable(<<"x">>, ids[2]))>>)
    /\ parsed.output.some.expr.right =
          Predicate(<<"Q">>, <<ConstVariable(ParsedVariable(<<"x">>, ids[1]))>>)

\* the tokens that are quantifier signs
QuantifierSigns == {Tok(ForallSign), Tok("@"), Tok(ExistsSign), Tok("/")}

\* the variable-class tokens that are no binder, in the order of the text
Occurrences(toks) ==
    LET RECURSIVE From(_)
        From(i) ==
            IF i > Len(toks) THEN <<>>
            ELSE IF toks[i][1] \in VariableChars /\ (i = 1 \/ toks[i - 1] \notin QuantifierSigns)
            THEN <<i>> \o From(i + 1)
            ELSE From(i + 1)
    IN  From(1)

\* the span of the i-th token in the text: offsets from 0, end exclusive
TokenSpan(toks, sp, i) ==
    LET RECURSIVE Before(_)
        Before(j) ==
            IF j = 0 THEN IF 0 \in sp THEN 1 ELSE 0
            ELSE Before(j - 1) + Len(toks[j]) + (IF j \in sp THEN 1 ELSE 0)
    IN  <<Before(i - 1), Before(i - 1) + Len(toks[i])>>

RECURSIVE TermVariables(_)
\* the variables of a term, in the order of the text
TermVariables(c) ==
    CASE c.ctag = "Variable" -> <<c.var>>
      [] c.ctag = "Function" ->
            LET RECURSIVE Args(_)
                Args(i) == IF i > Len(c.args) THEN <<>>
                           ELSE TermVariables(c.args[i]) \o Args(i + 1)
            IN  Args(1)
      [] c.ctag = "Operator" -> TermVariables(c.left) \o TermVariables(c.right)
      [] OTHER -> <<>>

RECURSIVE VariablesOf(_)
\* the variable occurrences of a formula, in the order of the text
VariablesOf(e) ==
    CASE e.tag \in QuantifierTags -> VariablesOf(e.expr)
      [] e.tag = "Predicate" ->
            LET RECURSIVE Args(_)
                Args(i) == IF i > Len(e.args) THEN <<>>
                           ELSE TermVariables(e.args[i]) \o Args(i + 1)
            IN  Args(1)
      [] e.tag = "ConstantValue" -> TermVariables(e.value)
      [] e.tag = "Not" -> VariablesOf(e.expr)
      [] e.tag \in BinaryTags -> VariablesOf(e.left) \o VariablesOf(e.right)
      [] OTHER -> <<>>

\* the spans of the errors with this message
ErrorSpans(result, msg) ==
    {result.errors[i].span : i \in {j \in DOMAIN result.errors : result.errors[j].msg = msg}}

RECURSIVE BindersOf(_)
\* the binders of the quantifiers of a formula, in the order of the text
BindersOf(e) ==
    CASE e.tag \in QuantifierTags -> <<e.iter>> \o BindersOf(e.expr)
      [] e.tag = "Not" -> BindersOf(e.expr)
      [] e.tag \in BinaryTags -> BindersOf(e.left) \o BindersOf(e.right)
      [] OTHER -> <<>>

\* C17: two distinct quantifier occurrences of a parsed formula never have
\* the same binding identity, so that two variables are equal only if the
\* same quantifier occurrence binds them.
C17_UniqueIdentities ==
    (pc \in {"done", "compared"} /\ IsSome(parsed.output)) =>
        LET binders == BindersOf(parsed.output.some)
        IN  \A i \in DOMAIN binders, j \in DOMAIN binders :
                i # j => binders[i].id # binders[j].id

\* C18: whitespace between two adjacent tokens is insignificant: with a
\* space added or removed at one token boundary the text parses to the same
\* formula, or fails as before (the quantifiers drawing the same identities
\* in both parses).
C18_WhitespaceInsignificant ==
    pc = "compared" => reparsed.output = parsed.output

\* the term the tokens of a term stand for
TermExpr(toks) ==
    CASE toks = <<Tok("a")>> -> ConstConstant(<<"a">>)
      [] toks = <<Tok("b")>> -> ConstConstant(<<"b">>)
      [] toks = <<Tok("1")>> -> ConstNumber(1)
      [] toks = <<Tok("2")>> -> ConstNumber(2)
      [] toks = Bracketed("(", <<Tok("a")>>, ")") -> ConstConstant(<<"a">>)
      [] toks = <<Tok("f"), Tok("("), Tok("b"), Tok(")")>> ->
            ConstFunction(<<"f">>, <<ConstConstant(<<"b">>)>>)
      [] toks = Bracketed("[", <<Tok("c"), Tok("+"), Tok("1")>>, "]") ->
            ConstOperator(<<"+">>, ConstConstant(<<"c">>), ConstNumber(1))

\* the negated equality of two terms
NegatedEquality(a, b) == Not(ConstantValue(ConstOperator(<<"=">>, a, b)))

\* C19: for terms a and b, "a != b" and the same written with the sign
\* U+2260 parse without error to Not(ConstantValue(Operator("=", a, b))),
\* as does the negation of the bracketed "a = b"; with any other symbol of
\* one or two operator characters between them the text parses to
\* ConstantValue(Operator(symbol, a, b)), also when the symbol spells a
\* connective.
C19_TermStatements ==
    pc \in {"done", "compared"} =>
        \A ab \in TermPairs :
            /\ \A s \in NotEqualSigns :
                  tokens = ab[1] \o <<s>> \o ab[2] =>
                      ParsedTo(parsed, NegatedEquality(TermExpr(ab[1]), TermExpr(ab[2])))
            /\ \A n \in {NotSign, "~", "!"} :
                  tokens = <<Tok(n)>> \o Bracketed("(", ab[1] \o <<Tok("=")>> \o ab[2], ")") =>
                      ParsedTo(parsed, NegatedEquality(TermExpr(ab[1]), TermExpr(ab[2])))
            /\ \A s \in TermSymbols \ NotEqualSigns :
                  tokens = ab[1] \o <<s>> \o ab[2] =>
                      ParsedTo(parsed, ConstantValue(ConstOperator(s, TermExpr(ab[1]),
                                                                   TermExpr(ab[2]))))

\* f(b) != 2 is the negated equality
C19_Witness ==
    /\ pc = "done"
    /\ tokens = <<Tok("f"), Tok("("), Tok("b"), Tok(")"), <<"!", "=">>, Tok("2")>>
    /\ parsed = [output |-> SomeExpr(NegatedEquality(
                               ConstFunction(<<"f">>, <<ConstConstant(<<"b">>)>>),
                               ConstNumber(2))),
                 errors |-> <<>>]

\* a & b is no conjunction
C19_WitnessSymbol ==
    /\ pc = "done"
    /\ tokens = <<Tok("a"), Tok("&"), Tok("b")>>
    /\ parsed = [output |-> SomeExpr(ConstantValue(ConstOperator(<<"&">>, ConstConstant(<<"a">>),
                                                                 ConstConstant(<<"b">>)))),
                 errors |-> <<>>]

\* C20: for a text of the shape of the one of tests/test.rs, a bracketed
\* chain of three literals under one And/Or/Xor operator, conjoined with a
\* bracketed universal quantifier whose bracketed body applies a predicate to
\* a variable other than the binder, the parser returns no error.
C20_TestShapedNoErrors ==
    (pc \in {"done", "compared"} /\ tokens \in TestShaped) => parsed.errors = <<>>

(***************************************************************************)
(* Vocabulary of the properties of the editor.                             *)
(***************************************************************************)
\* the keys of an IndexMap
Keys(m) == {m[i] : i \in DOMAIN m}

\* C21: after any sequence of editor events, EditorContext.branches holds
\* exactly the branches of the tree under root_branch: every sub-branch made
\* is registered, and a sub-branch taken away is unregistered together with
\* all the branches under it.
C21_BranchesRegistered ==
    pc = "editor" => Keys(editor_branches) = Rendered(branch_states, RootBranch)

RECURSIVE FirstInvalid(_, _)
\* the error of the first invalid node of a bracket-free formula, going
\* depth first from left to right, bound being the binders in scope
FirstInvalid(e, bound) ==
    LET RECURSIVE Among(_, _)
        Among(es, i) ==
            IF i > Len(es) THEN ValidOk
            ELSE IF FirstInvalid(es[i], bound).ok THEN Among(es, i + 1)
            ELSE FirstInvalid(es[i], bound)
    IN  CASE e.tag = "Generic" -> NotSupported("Generics")
          [] e.tag = "Variable" -> IF e.var \in bound THEN ValidOk ELSE InvalidVariable(e.var)
          [] e.tag = "Not" -> FirstInvalid(e.expr, bound)
          [] e.tag \in QuantifierTags -> FirstInvalid(e.expr, bound \cup {e.iter})
          [] e.tag \in BinaryTags \cup {"UnknownOperator"} -> Among(<<e.left, e.right>>, 1)
          [] e.tag \in {"Function", "Predicate"} -> Among(e.args, 1)
          [] OTHER -> ValidOk

\* C22: a failing validation returns the error of the first invalid node in
\* left-to-right, depth-first order: InvalidVariable(name) for a variable
\* out of scope, NotSupported("Generics") for a Generic; for a binary node
\* whose operands are both invalid it is the left operand's error.
C22_FirstError ==
    pc = "done" =>
        LET f == StripGroups(formula)
        IN  /\ validation = FirstInvalid(f, {})
            /\ (/\ f.tag \in BinaryTags \cup {"UnknownOperator"}
                /\ ~FirstInvalid(f.left, {}).ok /\ ~FirstInvalid(f.right, {}).ok)
                  => validation = FirstInvalid(f.left, {})

\* a Generic to the left of a variable out of scope
C22_Witness ==
    /\ pc = "done"
    /\ formula = Conditional(Generic("a"), Universal("x", Variable("y")))
    /\ ValidateSyntax(formula.right) = InvalidVariable("y")
    /\ validation = NotSupported("Generics")

\* two sets hold the same formulas up to brackets, each once
SameSet(S, T) ==
    /\ Cardinality(S) = Cardinality(T)
    /\ \A x \in S : Member(T, x)
    /\ \A y \in T : Member(S, y)

\* two results of decompose are the same error or equal pairs of sets
SameDecomposition(a, b) ==
    IF a.ok /\ b.ok THEN SameSet(a.one, b.one) /\ SameSet(a.two, b.two)
    ELSE a = b

\* C23: for every rule, decompose gives the same result, the same error or
\* equal pairs of sets, for a formula and for the same formula with every
\* bracket pair erased (hence for any two formulas equal up to brackets);
\* a Biconditional whose operands are equal up to brackets gives two sets
\* of one element each.
C23_GroupInvariant ==
    pc = "done" =>
        /\ SameDecomposition(decomposed, Decompose(rule, StripGroups(expr)))
        /\ (/\ rule = "Biconditional" /\ HasShape(rule, expr)
            /\ StructEq(Unbracket(expr).left, Unbracket(expr).right))
              => /\ decomposed.ok
                 /\ Cardinality(decomposed.one) = 1
                 /\ Cardinality(decomposed.two) = 1

\* (~A <-> ~(A)) in brackets: one element in each set
C23_Witness ==
    /\ pc = "done" /\ rule = "Biconditional"
    /\ expr.tag \in GroupTags
    /\ Unbracket(expr).tag = "Biconditional"
    /\ Unbracket(expr).left = Not(Literal("A"))
    /\ Unbracket(expr).right = Not(Group(Literal("A")))
    /\ decomposed.ok
    /\ Cardinality(decomposed.one) = 1
    /\ Cardinality(decomposed.two) = 1

\* the root (last) statement of the branch exists and has no parsed formula
RootUnparsed ==
    /\ Len(statements) > 0
    /\ ~IsSome(statements[Len(statements)])

\* the branch has sub-branches; the branch has a selected rule
HasSub == "some" \in DOMAIN sub
HasRule == branch_rule \in BranchRule

\* C24: current_error is DependentStatementError whenever the root (last)
\* statement has no parsed formula, whatever the rule and the sub-branches;
\* otherwise NoRuleSelected when there are sub-branches and no rule;
\* otherwise NoStatements when there is a rule and no sub-branches;
\* otherwise Root(err) when the decomposition of the root statement by the
\* rule fails with err; SubBranch, SubBranches or no error after a
\* comparison of the sub-branches only when none of these apply.
C24_ErrorPriority ==
    pc \in {"input", "done"} =>
        /\ RootUnparsed => current_error = DependentStatementError
        /\ (~RootUnparsed /\ ~HasRule /\ HasSub)
              => current_error = NoRuleSelected
        /\ (~RootUnparsed /\ HasRule /\ ~HasSub)
              => current_error = NoStatements
        /\ (BranchChecked /\ ~RootDecomposition.ok)
              => /\ current_error.err = "Root"
                 /\ current_error.cause = RootDecomposition
        /\ current_error.err \in {"SubBranch", "SubBranches"}
              => BranchChecked /\ RootDecomposition.ok

\* an unparsed root statement under a premise, with no rule selected and
\* two sub-branches: the root statement's error is the one reported
C24_Witness ==
    /\ pc = "done" /\ RootUnparsed /\ ~HasRule /\ HasSub
    /\ Len(statements) = 2
    /\ current_error = DependentStatementError

\* a rule that does not fit the parsed root statement, with sub-branches
C24_WitnessRoot ==
    /\ pc = "done" /\ BranchChecked /\ ~RootDecomposition.ok
    /\ current_error.err = "Root"

\* C25: whenever the error is SubBranch(uid), the sub-branch named by uid
\* starts with neither of the two required sets and the other sub-branch
\* starts with at least one of them.
C25_NamedSubBranchWrong ==
    (pc = "done" /\ current_error.err = "SubBranch") =>
        \E i \in {1, 2} :
            /\ sub.some[i].uid = current_error.uid
            /\ ~SubCorrect(i)
            /\ SubCorrect(3 - i)

\* the hash reached the unreachable!() arm
HashPanicked(h) == \E i \in DOMAIN h : "panic" \in DOMAIN h[i]

\* the formulas a third operand of == is taken from
ThirdOperands == Wrap({lhs, rhs, StripGroups(lhs)}, 1) \cup EqCores

\* C26: == on Expr is reflexive, symmetric and transitive; a == b implies
\* that a and b hash identically, brackets included; no hash reaches the
\* unreachable!() arm of the Group variants.
C26_EquivalenceAndHash ==
    pc = "done" =>
        /\ ExprEq(lhs, lhs) /\ ExprEq(rhs, rhs)
        /\ eq_result = ExprEq(rhs, lhs)
        /\ \A c \in ThirdOperands :
              (eq_result /\ ExprEq(rhs, c)) => ExprEq(lhs, c)
        /\ eq_result => hash_lhs = hash_rhs
        /\ ~HashPanicked(hash_lhs) /\ ~HashPanicked(hash_rhs)

\* a bracketed formula with brackets inside equal to another bracketing of
\* the same formula, itself equal to the formula without brackets
C26_Witness ==
    /\ pc = "done" /\ eq_result = TRUE
    /\ lhs.tag \in GroupTags /\ lhs.expr.tag = "Biconditional"
    /\ lhs.expr.left.tag \in GroupTags
    /\ rhs.tag = "Biconditional" /\ rhs.right.tag \in GroupTags
    /\ ExprEq(rhs, StripGroups(lhs)) /\ ExprEq(lhs, StripGroups(lhs))
    /\ hash_lhs = hash_rhs /\ ~HashPanicked(hash_lhs)

\* the statements of branch b
StatementsOf(b) == branch_states[b].statements

\* C27: every branch of the editor has at least one statement at all times;
\* del_statement on a branch with one statement returns the error 'Cannot
\* delete last statement in branch' and leaves the branch as it was.
C27_NeverEmpty ==
    pc = "editor" =>
        /\ \A b \in DOMAIN branch_states : Len(StatementsOf(b)) >= 1
        /\ (deleted.called /\ Len(deleted.before) = 1) =>
              /\ ~deleted.result.ok
              /\ deleted.result.err = "Cannot delete last statement in branch"
              /\ StatementsOf(deleted.branch) = deleted.before

\* del_statement called for the only statement of a sub-branch
C27_Witness ==
    /\ pc = "editor" /\ deleted.called
    /\ deleted.branch # RootBranch
    /\ deleted.before = <<deleted.uid>>
    /\ ~deleted.result.ok
    /\ StatementsOf(deleted.branch) = <<deleted.uid>>

\* C28: del_statement(uid) on a branch with more than one statement removes
\* exactly that statement and keeps the order of the others; it returns the
\* statement immediately before the removed one, or the new first statement
\* when the first was removed; the uid returned is never the removed one
\* and is a statement of the same branch.
C28_DeleteFocus ==
    (/\ pc = "editor" /\ deleted.called /\ Len(deleted.before) > 1
     /\ \E i \in DOMAIN deleted.before : deleted.before[i] = deleted.uid) =>
        LET i == CHOOSE j \in DOMAIN deleted.before : deleted.before[j] = deleted.uid
            after == StatementsOf(deleted.branch)
        IN  /\ after = SelectSeq(deleted.before, LAMBDA u : u # deleted.uid)
            /\ Len(after) = Len(deleted.before) - 1
            /\ deleted.result.ok
            /\ deleted.result.focus =
                  (IF i = 1 THEN after[1] ELSE deleted.before[i - 1])
            /\ deleted.result.focus # deleted.uid
            /\ \E j \in DOMAIN after : after[j] = deleted.result.focus

\* the last of three statements deleted: the second is returned
C28_Witness ==
    /\ pc = "editor" /\ deleted.called
    /\ Len(deleted.before) = 3
    /\ deleted.before[3] = deleted.uid
    /\ deleted.result.ok
    /\ deleted.result.focus = deleted.before[2]
    /\ StatementsOf(deleted.branch) = SubSeq(deleted.before, 1, 2)

\* the first of several statements deleted: the new first is returned
C28_WitnessFirst ==
    /\ pc = "editor" /\ deleted.called
    /\ Len(deleted.before) > 1
    /\ deleted.before[1] = deleted.uid
    /\ deleted.result.ok
    /\ deleted.result.focus = deleted.before[2]

\* C29: focused_branch is a key of EditorContext.branches at all times;
\* focused_statement, when set, is a key of EditorContext.statements and a
\* statement of the focused branch; no unwrap() of a lookup by these uids
\* fails.
C29_FocusValid ==
    /\ pc # "panicked"
    /\ pc = "editor" =>
          /\ focused_branch \in Keys(editor_branches)
          /\ focused_statement # NoUid =>
                /\ focused_statement \in editor_statements
                /\ \E i \in DOMAIN StatementsOf(focused_branch) :
                      StatementsOf(focused_branch)[i] = focused_statement

\* the focus in a sub-branch after a deletion there
C29_Witness ==
    /\ pc = "editor" /\ deleted.called /\ deleted.result.ok
    /\ focused_branch # RootBranch
    /\ branch_states[focused_branch].parent = RootBranch
    /\ focused_branch \in Keys(editor_branches)
    /\ focused_statement = deleted.result.focus
    /\ focused_statement \in editor_statements

(***************************************************************************)
(* Vocabulary of the properties of the errors.                             *)
(***************************************************************************)
\* the least and the greatest number of a non-empty set
Least(S) == CHOOSE x \in S : \A y \in S : x <= y
Greatest(S) == CHOOSE x \in S : \A y \in S : x >= y

\* C30: the range of YggError::custom(spans, msg) encloses every span: start
\* is the smallest start and end is the largest end over spans, with
\* start <= end; both are the default offset, 0, when spans is empty.
C30_EnclosingRange ==
    pc = "done" =>
        /\ custom.start <= custom.end
        /\ IF error_spans = <<>>
           THEN custom.start = 0 /\ custom.end = 0
           ELSE /\ custom.start = Least({error_spans[i].start : i \in DOMAIN error_spans})
                /\ custom.end = Greatest({error_spans[i].end : i \in DOMAIN error_spans})
                /\ \A i \in DOMAIN error_spans :
                      /\ custom.start <= error_spans[i].start
                      /\ error_spans[i].end <= custom.end

=============================================================================
